---- MODULE Spec2Model ----
(***************************************************************************)
(* A model of the MDS provider API (kiwibot-data/mds-provider-api):        *)
(*   - the Auth Gate (app/auth/middleware.py), the signed-token handler    *)
(*     (app/auth/jwt_handler.py) and the API-key store                     *)
(*     (app/auth/api_key_handler.py)            -- specification Spec      *)
(*   - the API-key store under calls of its own operations -- SpecKeys     *)
(*   - the concurrency gate (app/middleware/concurrency.py)                *)
(*                                              -- SpecConcurrency         *)
(*   - the endpoints, the queries they issue and the HTTP exception        *)
(*     handler (app/endpoints/*.py, app/main.py) -- SpecEndpoint           *)
(*   - the vehicle state classifier (app/services/transformers.py)         *)
(*                                              -- SpecClassifier          *)
(*   - the transforms and identifiers of DataTransformer                   *)
(*     (app/services/transformers.py, app/models/*.py) -- SpecTransform    *)
(* Python values are modelled as follows: None is the string NoneVal, a    *)
(* str is a record that carries the attributes the code inspects (its      *)
(* text, its length, whether it contains '.', and how the JWT library      *)
(* parses it), a dict is a function whose DOMAIN is its key set, and the   *)
(* outcome of a call is a record that says whether it returned or raised.  *)
(***************************************************************************)
EXTENDS Integers, Sequences, FiniteSets, TLC

VARIABLES
    \* ---- process-wide state of the authentication layer
    DEBUG,          \* settings.DEBUG
    is_testing,     \* "pytest" in sys.modules
    api_keys,       \* APIKeyHandler.api_keys : key text -> [provider_id, active]
    jwks_cache,     \* the lru_cache(maxsize=1) slot of JWTHandler.get_jwks
    \* ---- the request the Auth Gate is handling
    pc,             \* "idle" | "gate" | "downstream" | "done"
    request,        \* the inbound request
    gate,           \* what AuthMiddleware.dispatch did for it so far
    response,       \* the response (or the exception) dispatch ended with
    \* ---- direct calls of the API-key store
    key_call,       \* the call of an APIKeyHandler method being evaluated
    key_result,     \* what that call returned or raised
    \* ---- concurrency gate
    sem_value,      \* asyncio.Semaphore._value
    sem_waiters,    \* requests suspended in Semaphore.acquire
    cstate,         \* per request: position in ConcurrencyMiddleware.dispatch
    \* ---- endpoints
    ep_call,        \* the endpoint call being answered
    ep_response,    \* the HTTP response the application produced for it
    ep_queries,     \* the upstream queries the call issued, in order
    \* ---- state classifier
    cl_row,         \* the location row handed to determine_vehicle_state
    cl_now,         \* datetime.utcnow() at the call, in seconds
    cl_state,       \* the state returned ("" before the call)
    \* ---- data transformer
    tr_call,        \* the call of a transformer function being evaluated
    tr_result       \* what that call returned or raised

authVars == <<DEBUG, is_testing, api_keys, jwks_cache, pc, request, gate, response,
              key_call, key_result>>
concVars == <<sem_value, sem_waiters, cstate>>
epVars   == <<ep_call, ep_response, ep_queries>>
clVars   == <<cl_row, cl_now, cl_state>>
trVars   == <<tr_call, tr_result>>
vars     == <<authVars, concVars, epVars, clVars, trVars>>

NoneVal == "<None>"

(***************************************************************************)
(* Settings (app/config.py).                                               *)
(***************************************************************************)
PROVIDER_ID  == "kiwibot-delivery-robots"
AUTH0_DOMAIN == "kiwibot.auth0.com"
OTHER_ID     == "some-other-provider"

(***************************************************************************)
(* Strings.  A string is [text, len, dot, jwt]: jwt tells what             *)
(* jwt.get_unverified_header / jwt.decode make of it.                      *)
(***************************************************************************)
NotJWT == [aud_ok |-> FALSE,
           claims |-> [client_id |-> NoneVal, provider_id |-> NoneVal, sub |-> NoneVal],
           expired |-> FALSE,
           iss_ok |-> FALSE,
           kid |-> NoneVal,
           parsable |-> FALSE,
           signed_by |-> NoneVal]

Str(text, len, dot) == [dot |-> dot, jwt |-> NotJWT, len |-> len, text |-> text]

Claims(p, s, c) == [client_id |-> c, provider_id |-> p, sub |-> s]

\* A well-formed signed token: header.payload.signature, several hundred characters.
Jwt(text, kid, signed_by, expired, aud_ok, iss_ok, claims) ==
    [dot |-> TRUE,
     jwt |-> [aud_ok |-> aud_ok, claims |-> claims, expired |-> expired, iss_ok |-> iss_ok,
              kid |-> kid, parsable |-> TRUE, signed_by |-> signed_by],
     len |-> 420,
     text |-> text]

EmptyStr == Str("", 0, FALSE)

\* str.strip() == "" : the empty string and strings of white space only
IsBlank(s) == s.text \in {"", " "}

\* str.lower() of the scheme words the model uses
Lower(text) ==
    CASE text = "Bearer" -> "bearer"
      [] text = "BEARER" -> "bearer"
      [] text = "Basic"  -> "basic"
      [] OTHER -> text

(***************************************************************************)
(* API-key store (app/auth/api_key_handler.py).                            *)
(***************************************************************************)
KeyInfo(provider, active) == [active |-> active, provider_id |-> provider]

\* _load_api_keys : the built-in keys, then one key per API_KEY_* environment
\* variable "key:provider[:permissions]"; env is the set of [key, provider] so given.
DefaultKeys == {"mds_test_key_12345", "mds_demo_key_67890", "mds_washington_ddot_2024"}

LoadApiKeys(env) ==
    [k \in DefaultKeys \cup {e.key : e \in env} |->
        IF \E e \in env : e.key = k
        THEN KeyInfo((CHOOSE e \in env : e.key = k).provider, TRUE)
        ELSE CASE k = "mds_test_key_12345" -> KeyInfo("test-provider-1", TRUE)
               [] k = "mds_demo_key_67890" -> KeyInfo("test-provider-2", TRUE)
               [] OTHER                    -> KeyInfo("washingtonddot", TRUE)]

\* a call's outcome: returned a value, or raised
Returned(v) == [detail |-> "", exc |-> "", status |-> 0, value |-> v]
Raised(exc, status, detail) == [detail |-> detail, exc |-> exc, status |-> status, value |-> NoneVal]
HTTPException(status, detail) == Raised("HTTPException", status, detail)

\* validate_api_key as it would be without the `active` test of lines 115-120
validate_api_key_any_state(store, key) ==
    IF key.text = "" THEN HTTPException(401, "API key missing")
    ELSE IF key.text \notin DOMAIN store THEN HTTPException(401, "Invalid API key")
    ELSE Returned([permissions |-> <<"read">>, provider_id |-> store[key.text].provider_id])

\* APIKeyHandler.validate_api_key
validate_api_key(store, key) ==
    IF key.text = "" THEN HTTPException(401, "API key missing")
    ELSE IF key.text \notin DOMAIN store THEN HTTPException(401, "Invalid API key")
    ELSE IF ~store[key.text].active THEN HTTPException(401, "API key is inactive")
    ELSE Returned([permissions |-> <<"read">>, provider_id |-> store[key.text].provider_id])

\* generate_api_key as it would be if storing a key set every key active
generate_api_key_all_active(store, keytext, provider) ==
    [k \in DOMAIN store \cup {keytext} |->
        KeyInfo(IF k = keytext THEN provider ELSE store[k].provider_id, TRUE)]

\* APIKeyHandler.generate_api_key : the store after the call
generate_api_key(store, keytext, provider) ==
    [k \in DOMAIN store \cup {keytext} |->
        IF k = keytext THEN KeyInfo(provider, TRUE) ELSE store[k]]

\* APIKeyHandler.revoke_api_key : the store after the call
revoke_api_key(store, keytext) ==
    IF keytext \in DOMAIN store
    THEN [store EXCEPT ![keytext].active = FALSE]
    ELSE store
\* APIKeyHandler.revoke_api_key : the value returned
revoke_api_key_returns(store, keytext) == keytext \in DOMAIN store

(***************************************************************************)
(* Signed-token handler (app/auth/jwt_handler.py).                         *)
(* A key set (JWKS) is the set of key ids it holds; the key published      *)
(* under key id k verifies exactly the tokens with signed_by = k.          *)
(* net is what the issuer's JWKS endpoint would answer if it were asked    *)
(* now: [ok, keys].                                                        *)
(***************************************************************************)
EmptyCache == [filled |-> FALSE, keys |-> {}]

\* get_jwks as it would be without the @lru_cache decorator: every call fetches
get_jwks_uncached(cache, net) ==
    IF AUTH0_DOMAIN = ""
    THEN [cache |-> cache, fetched |-> 0, out |-> HTTPException(500, "Auth0 domain not configured")]
    ELSE IF net.ok
    THEN [cache |-> [filled |-> TRUE, keys |-> net.keys], fetched |-> 1, out |-> Returned(net.keys)]
    ELSE [cache |-> cache, fetched |-> 1, out |-> HTTPException(500, "Failed to fetch JWKS")]

\* JWTHandler.get_jwks under @lru_cache(maxsize=1): a cached result is returned
\* without running the body; a call that raises caches nothing.
\* Result: the outcome, the cache slot afterwards, the number of HTTP fetches issued.
get_jwks(cache, net) ==
    IF cache.filled
    THEN [cache |-> cache, fetched |-> 0, out |-> Returned(cache.keys)]
    ELSE IF AUTH0_DOMAIN = ""
    THEN [cache |-> cache, fetched |-> 0, out |-> HTTPException(500, "Auth0 domain not configured")]
    ELSE IF net.ok
    THEN [cache |-> [filled |-> TRUE, keys |-> net.keys], fetched |-> 1, out |-> Returned(net.keys)]
    ELSE [cache |-> cache, fetched |-> 1, out |-> HTTPException(500, "Failed to fetch JWKS")]

\* JWTHandler.get_signing_key, lines 54-63: the key set j in hand, find the key
\* whose kid is the token's
SigningKeyIn(token, j) ==
    [asked |-> TRUE,
     cache |-> j.cache,
     fetched |-> j.fetched,
     jwks |-> IF j.out.exc # "" THEN {} ELSE j.out.value,
     out |-> IF j.out.exc # "" THEN j.out
             ELSE IF token.jwt.kid \in j.out.value THEN Returned(token.jwt.kid)
             ELSE HTTPException(401, "Unable to find appropriate key")]

SigningKeyWithoutKeySet(out, cache) ==
    [asked |-> FALSE, cache |-> cache, fetched |-> 0, jwks |-> {}, out |-> out]

\* JWTHandler.get_signing_key
\* Result: outcome (the key id of the signing key found), the cache slot, the fetches
\* issued, whether the key set was asked for, and the key set used.
get_signing_key(token, cache, net) ==
    IF ~token.jwt.parsable
    \* jwt.get_unverified_header raises DecodeError, an InvalidTokenError
    THEN SigningKeyWithoutKeySet(HTTPException(401, "Invalid token"), cache)
    ELSE IF token.jwt.kid \in {NoneVal, ""}
    THEN SigningKeyWithoutKeySet(HTTPException(401, "Token missing kid in header"), cache)
    ELSE SigningKeyIn(token, get_jwks(cache, net))

\* jwt.decode(token, key, algorithms, audience, issuer): signature first, then the
\* registered claims; every failure is a subclass of jwt.InvalidTokenError.
jwt_decode(token, keyid) ==
    IF token.jwt.signed_by # keyid THEN Raised("InvalidSignatureError", 0, "Signature verification failed")
    ELSE IF token.jwt.expired THEN Raised("ExpiredSignatureError", 0, "Signature has expired")
    ELSE IF ~token.jwt.iss_ok THEN Raised("InvalidIssuerError", 0, "Invalid issuer")
    ELSE IF ~token.jwt.aud_ok THEN Raised("InvalidAudienceError", 0, "Invalid audience")
    ELSE Returned(token.jwt.claims)

\* JWTHandler.verify_token, lines 99-118: the except clauses over jwt.decode
DecodeOutcome(d) ==
    IF d.exc = "" THEN d
    ELSE IF d.exc = "ExpiredSignatureError" THEN HTTPException(401, "Token has expired")
    ELSE IF d.exc = "InvalidAudienceError" THEN HTTPException(401, "Invalid token audience")
    ELSE IF d.exc = "InvalidIssuerError" THEN HTTPException(401, "Invalid token issuer")
    ELSE HTTPException(401, "Invalid token")

VerifyResult(sk, out) ==
    [asked |-> sk.asked,
     cache |-> sk.cache,
     fetched |-> sk.fetched,
     jwks |-> sk.jwks,
     out |-> out,
     verified |-> (out.exc = "")]

\* JWTHandler.verify_token, with the outcome sk of get_signing_key: the try block
\* encloses get_signing_key, and its last handler, `except Exception` (line 119),
\* also catches the HTTPException that get_signing_key and get_jwks raise.
VerifyWith(token, sk) ==
    IF sk.out.exc # ""
    THEN VerifyResult(sk, HTTPException(500, "Token verification failed"))
    ELSE VerifyResult(sk, DecodeOutcome(jwt_decode(token, sk.out.value)))

\* JWTHandler.verify_token
verify_token(token, cache, net) == VerifyWith(token, get_signing_key(token, cache, net))

\* Python truthiness of a claim value
Truthy(v) == v \notin {NoneVal, ""}

\* the choice of the claim as it would be if a claim that names the configured provider
\* were preferred to an earlier one that does not
FirstClaimMatching(claims) ==
    IF PROVIDER_ID \in {claims.provider_id, claims.sub, claims.client_id} THEN PROVIDER_ID
    ELSE IF Truthy(claims.provider_id) THEN claims.provider_id
    ELSE IF Truthy(claims.sub) THEN claims.sub
    ELSE claims.client_id

\* claims.get("provider_id") or claims.get("sub") or claims.get("client_id")
FirstClaim(claims) ==
    IF Truthy(claims.provider_id) THEN claims.provider_id
    ELSE IF Truthy(claims.sub) THEN claims.sub
    ELSE claims.client_id

CheckProviderId(provider_id) ==
    IF ~Truthy(provider_id) THEN HTTPException(401, "Token missing provider_id claim")
    ELSE IF provider_id # PROVIDER_ID THEN HTTPException(403, "Invalid provider_id in token")
    ELSE Returned(provider_id)

\* JWTHandler.extract_provider_id
extract_provider_id(claims) == CheckProviderId(FirstClaim(claims))

ClaimsOutcome(claims, p) ==
    IF p.exc # "" THEN p ELSE Returned([claims |-> claims, provider_id |-> p.value])

ValidateWith(v) ==
    IF v.out.exc # "" THEN v
    ELSE [v EXCEPT !.out = ClaimsOutcome(v.out.value, extract_provider_id(v.out.value))]

\* JWTHandler.validate_token_and_extract_claims
validate_token_and_extract_claims(token, cache, net) ==
    ValidateWith(verify_token(token, cache, net))

(***************************************************************************)
(* Requests.  A header that is absent has present = FALSE                  *)
(* (request.headers.get returns None).  The Authorization value is held    *)
(* as the text before its first space (head), whether it has a space, and  *)
(* the text after that space (rest).                                       *)
(***************************************************************************)
NoHeader == [has_space |-> FALSE, head |-> EmptyStr, present |-> FALSE, rest |-> EmptyStr]
Header1(s) == [has_space |-> FALSE, head |-> s, present |-> TRUE, rest |-> EmptyStr]
Header2(scheme, s) == [has_space |-> TRUE, head |-> scheme, present |-> TRUE, rest |-> s]

Req(path, method, xkey, authorization) ==
    [authorization |-> authorization, method |-> method, path |-> path, x_api_key |-> xkey]

\* bool(header value): present and not the empty string
HeaderTruthy(h) == h.present /\ ~(h.head.text = "" /\ ~h.has_space)

\* authorization.strip() == ""
HeaderBlank(h) == IsBlank(h.head) /\ (h.has_space => IsBlank(h.rest))

\* authorization.split(" ", 1)
Split(h) == IF h.has_space THEN <<h.head, h.rest>> ELSE <<h.head>>

(***************************************************************************)
(* Auth Gate (app/auth/middleware.py, AuthMiddleware.dispatch).            *)
(* The gate's work for one request up to the point where it either returns *)
(* a response of its own or awaits call_next is one record:                *)
(*   kind    "respond" | "call_next"                                       *)
(*   via     the branch that awaits call_next                              *)
(*   status, error   the JSONResponse of the gate (kind = "respond")       *)
(*   auth    request.state.auth                                            *)
(*   token   the Authorization token in hand                               *)
(*   lookups the key texts handed to validate_api_key, in order            *)
(*   jwt_calls how often validate_token_and_extract_claims was called      *)
(*   cache, fetched, asked, jwks, verified   as in the token handler       *)
(*   calls   how often call_next was invoked                               *)
(***************************************************************************)
PublicEndpoints == {"/", "/health", "/docs", "/redoc", "/openapi.json"}

NoAuth == [auth_type |-> NoneVal, provider_id |-> NoneVal]
AuthState(provider, type) == [auth_type |-> type, provider_id |-> provider]

GateRec(kind, via, status, error, auth, token, lookups, cache) ==
    [asked |-> FALSE,
     auth |-> auth,
     cache |-> cache,
     calls |-> 0,
     error |-> error,
     fetched |-> 0,
     jwks |-> {},
     jwt_calls |-> 0,
     kind |-> kind,
     lookups |-> lookups,
     status |-> status,
     token |-> token,
     verified |-> FALSE,
     via |-> via]

\* lines 78-89 and 157-168: the body built from a caught HTTPException whose detail
\* is a plain string (every HTTPException of the two credential handlers)
AuthErrorCode == "authentication_error"

\* lines 148-168: the outcome v of validate_token_and_extract_claims
GateJwtResult(token, lookups, v) ==
    [asked |-> v.asked,
     auth |-> IF v.out.exc # "" THEN NoAuth ELSE AuthState(v.out.value.provider_id, "jwt"),
     cache |-> v.cache,
     calls |-> 0,
     error |-> IF v.out.exc # "" THEN AuthErrorCode ELSE "",
     fetched |-> v.fetched,
     jwks |-> v.jwks,
     jwt_calls |-> 1,
     kind |-> IF v.out.exc # "" THEN "respond" ELSE "call_next",
     lookups |-> lookups,
     status |-> v.out.status,
     token |-> token,
     verified |-> v.verified,
     via |-> IF v.out.exc # "" THEN "" ELSE "jwt"]

\* lines 144-168: the token is verified as a signed token
GateJwt(token, lookups, cache, net) ==
    IF IsBlank(token)
    THEN GateRec("respond", "", 401, "invalid_authorization_header", NoAuth, token, lookups, cache)
    ELSE GateJwtResult(token, lookups, validate_token_and_extract_claims(token, cache, net))

\* the test of the shape of a token as it would be with <= for <
LooksLikeApiKeyUpTo100(token) == token.len <= 100 /\ ~token.dot

\* lines 107-120 and 125-140: a short token without '.' is tried as an API key first
LooksLikeApiKey(token) == token.len < 100 /\ ~token.dot

GateTokenAsKey(token, via, k, cache, net) ==
    IF k.exc = ""
    THEN GateRec("call_next", via, 0, "", AuthState(k.value.provider_id, "api_key"),
                 token, <<token.text>>, cache)
    ELSE GateJwt(token, <<token.text>>, cache, net)

GateToken(token, via, store, cache, net) ==
    IF LooksLikeApiKey(token)
    THEN GateTokenAsKey(token, via, validate_api_key(store, token), cache, net)
    ELSE GateJwt(token, <<>>, cache, net)

InvalidHeader(cache) ==
    GateRec("respond", "", 401, "invalid_authorization_header", NoAuth, EmptyStr, <<>>, cache)

GateParts(auth_parts, store, cache, net) ==
    IF Len(auth_parts) = 2
    THEN IF Lower(auth_parts[1].text) # "bearer" THEN InvalidHeader(cache)
         ELSE GateToken(auth_parts[2], "bearer_api_key", store, cache, net)
    ELSE GateToken(auth_parts[1], "bare_api_key", store, cache, net)

\* lines 92-190: the Authorization header
GateAuthorization(h, store, cache, net) ==
    IF HeaderBlank(h) THEN InvalidHeader(cache)
    ELSE GateParts(Split(h), store, cache, net)

GateApiKeyResult(key, k, cache) ==
    IF k.exc = ""
    THEN GateRec("call_next", "x_api_key", 0, "", AuthState(k.value.provider_id, "api_key"),
                 EmptyStr, <<key.text>>, cache)
    ELSE GateRec("respond", "", k.status, AuthErrorCode, NoAuth, EmptyStr, <<key.text>>, cache)

\* lines 66-89: the X-API-Key header
GateApiKey(key, store, cache) == GateApiKeyResult(key, validate_api_key(store, key), cache)

\* the development shortcut as it would be without the is_testing test of line 53
DevelopmentModeUntested(req, debug, testing) ==
    debug /\ ~HeaderTruthy(req.authorization) /\ ~HeaderTruthy(req.x_api_key)

\* lines 47-60: the development shortcut
DevelopmentMode(req, debug, testing) ==
    debug /\ ~testing /\ ~HeaderTruthy(req.authorization) /\ ~HeaderTruthy(req.x_api_key)

\* dispatch as it would be without the OPTIONS test of lines 44-45
GateDispatchPreflightChecked(req, debug, testing, store, cache, net) ==
    IF req.path \in PublicEndpoints
    THEN GateRec("call_next", "public", 0, "", NoAuth, EmptyStr, <<>>, cache)
    ELSE IF DevelopmentMode(req, debug, testing)
    THEN GateRec("call_next", "development", 0, "", AuthState(PROVIDER_ID, "development"),
                 EmptyStr, <<>>, cache)
    ELSE IF HeaderTruthy(req.x_api_key)
    THEN GateApiKey(req.x_api_key.head, store, cache)
    ELSE IF HeaderTruthy(req.authorization)
    THEN GateAuthorization(req.authorization, store, cache, net)
    ELSE GateRec("respond", "", 401, "authentication_required", NoAuth, EmptyStr, <<>>, cache)

\* lines 39-202: dispatch, up to its first await of call_next or its own response
GateDispatch(req, debug, testing, store, cache, net) ==
    IF req.path \in PublicEndpoints
    THEN GateRec("call_next", "public", 0, "", NoAuth, EmptyStr, <<>>, cache)
    ELSE IF req.method = "OPTIONS"
    THEN GateRec("call_next", "options", 0, "", NoAuth, EmptyStr, <<>>, cache)
    ELSE IF DevelopmentMode(req, debug, testing)
    THEN GateRec("call_next", "development", 0, "", AuthState(PROVIDER_ID, "development"),
                 EmptyStr, <<>>, cache)
    ELSE IF HeaderTruthy(req.x_api_key)
    THEN GateApiKey(req.x_api_key.head, store, cache)
    ELSE IF HeaderTruthy(req.authorization)
    THEN GateAuthorization(req.authorization, store, cache, net)
    ELSE GateRec("respond", "", 401, "authentication_required", NoAuth, EmptyStr, <<>>, cache)

(***************************************************************************)
(* What call_next can end with: a response of the application, or an       *)
(* exception that propagates out of it (an HTTPException raised by a       *)
(* middleware below the gate, such as the concurrency gate's 429, whose    *)
(* detail is a dict; or any other exception).                              *)
(***************************************************************************)
DownResponse(status, error) == [error |-> error, exc |-> "", kind |-> "response", status |-> status]
DownRaise(exc, status, error) == [error |-> error, exc |-> exc, kind |-> "raise", status |-> status]

NoResponse == [error |-> "", exc |-> "", kind |-> "none", source |-> "", status |-> 0]
GateResponse(status, error) ==
    [error |-> error, exc |-> "", kind |-> "response", source |-> "gate", status |-> status]
FromDownstream(down) ==
    [error |-> down.error,
     exc |-> down.exc,
     kind |-> down.kind,
     source |-> "downstream",
     status |-> down.status]

Done(g, r) == [gate |-> [g EXCEPT !.kind = "respond"], resp |-> r]

\* lines 78-89, 157-168: an HTTPException out of call_next, its detail a dict
Caught(g, down) == Done(g, GateResponse(down.status, down.error))

\* lines 169-190: any other exception out of call_next
Outer(g, down) ==
    IF down.exc = "ValueError"
    THEN Done(g, GateResponse(401, "invalid_authorization_header"))
    ELSE Done(g, GateResponse(500, "authentication_failed"))

\* lines 118-120, 138-140: `except HTTPException: pass`, then line 144 on; j is what
\* the signed-token step makes of the same token
FallThrough(j) ==
    [gate |-> j, resp |-> IF j.kind = "respond" THEN GateResponse(j.status, j.error) ELSE NoResponse]

\* What dispatch does when the call_next it awaited in branch g.via ends with `down`.
\* Result: the gate record afterwards (kind = "respond" with resp, or "call_next"
\* when the gate goes on to a further call_next).
GateResume(g, down, net) ==
    IF down.kind = "response" THEN Done(g, FromDownstream(down))
    ELSE CASE g.via \in {"public", "options", "development"} -> Done(g, FromDownstream(down))
           [] g.via = "x_api_key" ->
                IF down.exc = "HTTPException" THEN Caught(g, down) ELSE Done(g, FromDownstream(down))
           [] g.via \in {"bearer_api_key", "bare_api_key"} ->
                IF down.exc = "HTTPException"
                THEN FallThrough(GateJwt(g.token, g.lookups, g.cache, net))
                ELSE Outer(g, down)
           [] OTHER ->
                IF down.exc = "HTTPException" THEN Caught(g, down) ELSE Outer(g, down)

(***************************************************************************)
(* Inputs of the model.                                                    *)
(***************************************************************************)
Bearer == Str("Bearer", 6, FALSE)
Basic  == Str("Basic", 5, FALSE)

KeyTest    == Str("mds_test_key_12345", 18, FALSE)
KeyUnknown == Str("mds_unknown_key", 15, FALSE)
KeyEnv     == Str("mds_env_key_2024", 16, FALSE)

Opaque99  == Str("opaque-token-of-99-chars", 99, FALSE)
Opaque100 == Str("opaque-token-of-100-chars", 100, FALSE)
Dotted    == Str("short.dotted", 12, TRUE)

JwtOk == Jwt("jwt.ok", "kidA", "kidA", FALSE, TRUE, TRUE, Claims(PROVIDER_ID, NoneVal, NoneVal))
JwtExpired == Jwt("jwt.expired", "kidA", "kidA", TRUE, TRUE, TRUE, Claims(PROVIDER_ID, NoneVal, NoneVal))

JwtTokens ==
    { JwtOk, JwtExpired,
      Jwt("jwt.nokid", NoneVal, "kidA", FALSE, TRUE, TRUE, Claims(PROVIDER_ID, NoneVal, NoneVal)),
      Jwt("jwt.kidZ", "kidZ", "kidZ", FALSE, TRUE, TRUE, Claims(PROVIDER_ID, NoneVal, NoneVal)),
      Jwt("jwt.kidB", "kidB", "kidB", FALSE, TRUE, TRUE, Claims(PROVIDER_ID, NoneVal, NoneVal)),
      Jwt("jwt.forged", "kidA", "forged", FALSE, TRUE, TRUE, Claims(PROVIDER_ID, NoneVal, NoneVal)),
      Jwt("jwt.badaud", "kidA", "kidA", FALSE, FALSE, TRUE, Claims(PROVIDER_ID, NoneVal, NoneVal)),
      Jwt("jwt.badiss", "kidA", "kidA", FALSE, TRUE, FALSE, Claims(PROVIDER_ID, NoneVal, NoneVal)),
      Jwt("jwt.expired.other", "kidA", "kidA", TRUE, TRUE, TRUE, Claims(OTHER_ID, NoneVal, NoneVal)),
      Jwt("jwt.noid", "kidA", "kidA", FALSE, TRUE, TRUE, Claims(NoneVal, NoneVal, NoneVal)),
      Jwt("jwt.emptyid", "kidA", "kidA", FALSE, TRUE, TRUE, Claims("", "", "")),
      Jwt("jwt.other", "kidA", "kidA", FALSE, TRUE, TRUE, Claims(OTHER_ID, NoneVal, NoneVal)),
      Jwt("jwt.sub", "kidA", "kidA", FALSE, TRUE, TRUE, Claims(NoneVal, PROVIDER_ID, NoneVal)),
      Jwt("jwt.client", "kidA", "kidA", FALSE, TRUE, TRUE, Claims(NoneVal, NoneVal, PROVIDER_ID)),
      Jwt("jwt.other.sub", "kidA", "kidA", FALSE, TRUE, TRUE, Claims(OTHER_ID, PROVIDER_ID, NoneVal)),
      Jwt("jwt.empty.sub", "kidA", "kidA", FALSE, TRUE, TRUE, Claims("", PROVIDER_ID, NoneVal)),
      Jwt("jwt.sub.client", "kidA", "kidA", FALSE, TRUE, TRUE, Claims(NoneVal, OTHER_ID, PROVIDER_ID)) }

BearerTokens ==
    {EmptyStr, KeyTest, KeyUnknown, KeyEnv, Opaque99, Opaque100, Dotted} \cup JwtTokens

AuthorizationValues ==
    { NoHeader, Header1(EmptyStr), Header2(EmptyStr, EmptyStr), Header1(Bearer),
      Header2(Basic, Str("invalid", 7, FALSE)), Header2(Basic, KeyTest),
      Header2(Str("bearer", 6, FALSE), KeyTest),
      Header1(KeyTest), Header1(KeyUnknown), Header1(JwtOk) }
    \cup {Header2(Bearer, t) : t \in BearerTokens}
    \cup {Header1(KeyEnv)}

XKey(s) == Header1(s)

FewAuthorizations ==
    {NoHeader, Header2(Bearer, JwtOk), Header2(Bearer, KeyTest), Header2(Basic, Str("invalid", 7, FALSE))}

ProtectedRequests ==
    {Req("/vehicles/", "GET", NoHeader, a) : a \in AuthorizationValues}
    \cup {Req("/vehicles/", "GET", XKey(EmptyStr), a) : a \in FewAuthorizations}
    \cup {Req("/vehicles/", "GET", XKey(k), a) :
            k \in {KeyTest, KeyUnknown, KeyEnv}, a \in FewAuthorizations}

ExemptRequests ==
    {Req(pm[1], pm[2], x, a) :
        pm \in {<<"/health", "GET">>, <<"/docs", "GET">>, <<"/vehicles/", "OPTIONS">>},
        x \in {NoHeader, XKey(KeyUnknown)},
        a \in {NoHeader, Header2(Basic, Str("invalid", 7, FALSE)), Header2(Bearer, JwtExpired)}}

Requests == ProtectedRequests \cup ExemptRequests

NetAnswers ==
    { [keys |-> {}, ok |-> FALSE], [keys |-> {"kidA"}, ok |-> TRUE],
      [keys |-> {"kidA", "kidB"}, ok |-> TRUE] }

DownOutcomes ==
    { DownResponse(200, ""), DownResponse(404, "unknown_error"),
      DownRaise("HTTPException", 429, "rate_limit_exceeded"),
      DownRaise("RuntimeError", 0, ""), DownRaise("ValueError", 0, "") }

\* deployments: no API_KEY_* variable, or one that holds a key of the configured provider
Environments == { {}, {[key |-> "mds_env_key_2024", provider |-> PROVIDER_ID]} }
RevokeInputs == {"mds_unknown_key", "mds_env_key_2024"}

(***************************************************************************)
(* Specification Spec: the authentication layer.                           *)
(* One request at a time passes the gate.  Dispatch runs dispatch up to    *)
(* its first await (nothing else runs in between: the credential handlers  *)
(* and the JWKS fetch are synchronous); CallNext is the moment call_next   *)
(* ends.  RevokeApiKey is the store operation behind DELETE                *)
(* /admin/api-keys; it may run while a request is downstream.              *)
(***************************************************************************)
NoRequest == Req("", "", NoHeader, NoHeader)
GateIdle == GateRec("none", "", 0, "", NoAuth, EmptyStr, <<>>, EmptyCache)

ConcUnused == sem_value = 0 /\ sem_waiters = <<>> /\ cstate = <<>>
EpUnused   ==
    /\ ep_call = [endpoint |-> ""]
    /\ ep_response = [body |-> [none |-> ""], status |-> 0]
    /\ ep_queries = <<>>
ClUnused   == cl_row = [robot_id |-> ""] /\ cl_now = 0 /\ cl_state = ""
TrUnused   == tr_call = [function |-> ""] /\ tr_result = [exc |-> "<no call>"]
KeysUnused == key_call = [method |-> ""] /\ key_result = [exc |-> "<no call>"]
AuthUnused ==
    /\ KeysUnused
    /\ DEBUG = FALSE /\ is_testing = FALSE /\ api_keys = LoadApiKeys({})
    /\ jwks_cache = EmptyCache
    /\ pc = "idle" /\ request = NoRequest /\ gate = GateIdle /\ response = NoResponse

Init ==
    /\ DEBUG \in BOOLEAN
    /\ is_testing \in BOOLEAN
    /\ \E env \in Environments : api_keys = LoadApiKeys(env)
    /\ jwks_cache = EmptyCache
    /\ pc = "idle"
    /\ request = NoRequest
    /\ gate = GateIdle
    /\ response = NoResponse
    /\ KeysUnused
    /\ ConcUnused /\ EpUnused /\ ClUnused /\ TrUnused

DispatchTo(req, g) ==
    /\ request' = req
    /\ jwks_cache' = g.cache
    /\ gate' = [g EXCEPT !.calls = IF g.kind = "respond" THEN 0 ELSE 1]
    /\ response' = IF g.kind = "respond" THEN GateResponse(g.status, g.error) ELSE NoResponse
    /\ pc' = IF g.kind = "respond" THEN "done" ELSE "downstream"

Dispatch(req, net) ==
    /\ pc \in {"idle", "done"}
    /\ DispatchTo(req, GateDispatch(req, DEBUG, is_testing, api_keys, jwks_cache, net))
    /\ UNCHANGED <<DEBUG, is_testing, api_keys, key_call, key_result,
                   concVars, epVars, clVars, trVars>>

ResumeTo(r) ==
    /\ jwks_cache' = r.gate.cache
    /\ response' = r.resp
    /\ gate' = [r.gate EXCEPT !.calls = gate.calls + IF r.gate.kind = "call_next" THEN 1 ELSE 0]
    /\ pc' = IF r.gate.kind = "call_next" THEN "downstream" ELSE "done"

CallNext(down, net) ==
    /\ pc = "downstream"
    /\ ResumeTo(GateResume([gate EXCEPT !.cache = jwks_cache], down, net))
    /\ UNCHANGED <<DEBUG, is_testing, api_keys, request, key_call, key_result,
                   concVars, epVars, clVars, trVars>>

RevokeApiKey(keytext) ==
    /\ api_keys' = revoke_api_key(api_keys, keytext)
    /\ UNCHANGED <<DEBUG, is_testing, jwks_cache, pc, request, gate, response,
                   key_call, key_result, concVars, epVars, clVars, trVars>>

\* The issuer's answer matters only to a step that fetches the key set: the other
\* steps are enumerated under one answer.
NetDown == [keys |-> {}, ok |-> FALSE]
DispatchNets(req) ==
    IF GateDispatch(req, DEBUG, is_testing, api_keys, jwks_cache, NetDown).fetched = 1
    THEN NetAnswers ELSE {NetDown}
CallNextNets(down) ==
    IF GateResume([gate EXCEPT !.cache = jwks_cache], down, NetDown).gate.fetched = 1
    THEN NetAnswers ELSE {NetDown}

Next ==
    \/ \E req \in Requests : \E net \in DispatchNets(req) : Dispatch(req, net)
    \/ \E down \in DownOutcomes : \E net \in CallNextNets(down) : CallNext(down, net)
    \/ \E keytext \in RevokeInputs : RevokeApiKey(keytext)

Spec == Init /\ [][Next]_vars

(***************************************************************************)
(* Specification SpecKeys: the API-key store under any sequence of calls   *)
(* of generate_api_key, revoke_api_key and validate_api_key.               *)
(* secrets.token_urlsafe(32) draws 256 random bits: a generated key is a   *)
(* text the store does not hold yet.                                       *)
(***************************************************************************)
\* the texts the generator draws, and the providers keys are generated for
GeneratedKeys == {"mds_Qx7...generated-1", "mds_p0Z...generated-2"}
KeyProviders == {"test-provider-1", "washingtonddot"}
\* the keys handed to revoke_api_key and validate_api_key
KeyArguments ==
    GeneratedKeys \cup {"", "mds_test_key_12345", "mds_env_key_2024", "mds_unknown_key"}
\* a key as a str: "mds_" and the 43 characters of token_urlsafe(32) for a generated one
KeyStr(keytext) ==
    Str(keytext,
        CASE keytext = "" -> 0
          [] keytext = "mds_test_key_12345" -> 18
          [] keytext = "mds_env_key_2024" -> 16
          [] keytext = "mds_unknown_key" -> 15
          [] OTHER -> 47,
        FALSE)

KeysInit ==
    /\ DEBUG = FALSE /\ is_testing = FALSE
    /\ \E env \in Environments : api_keys = LoadApiKeys(env)
    /\ jwks_cache = EmptyCache
    /\ pc = "idle" /\ request = NoRequest /\ gate = GateIdle /\ response = NoResponse
    /\ KeysUnused
    /\ ConcUnused /\ EpUnused /\ ClUnused /\ TrUnused

KeysLeft ==
    UNCHANGED <<DEBUG, is_testing, jwks_cache, pc, request, gate, response,
                concVars, epVars, clVars, trVars>>

CallGenerateApiKey(keytext, provider_id) ==
    /\ keytext \notin DOMAIN api_keys
    /\ key_call' = [key |-> keytext, method |-> "generate_api_key", provider_id |-> provider_id]
    /\ api_keys' = generate_api_key(api_keys, keytext, provider_id)
    /\ key_result' = Returned(keytext)
    /\ KeysLeft

CallRevokeApiKey(keytext) ==
    /\ key_call' = [key |-> keytext, method |-> "revoke_api_key", provider_id |-> ""]
    /\ api_keys' = revoke_api_key(api_keys, keytext)
    /\ key_result' = Returned(revoke_api_key_returns(api_keys, keytext))
    /\ KeysLeft

CallValidateApiKey(keytext) ==
    /\ key_call' = [key |-> keytext, method |-> "validate_api_key", provider_id |-> ""]
    /\ api_keys' = api_keys
    /\ key_result' = validate_api_key(api_keys, KeyStr(keytext))
    /\ KeysLeft

KeysNext ==
    \/ \E keytext \in GeneratedKeys, provider_id \in KeyProviders :
          CallGenerateApiKey(keytext, provider_id)
    \/ \E keytext \in KeyArguments : CallRevokeApiKey(keytext)
    \/ \E keytext \in KeyArguments : CallValidateApiKey(keytext)

SpecKeys == KeysInit /\ [][KeysNext]_vars

(***************************************************************************)
(* Properties of the authentication layer (specification Spec).            *)
(***************************************************************************)
\* a request has been dispatched, on a path outside the allow-list, not a preflight
Protected(req) == req.path # "" /\ req.path \notin PublicEndpoints /\ req.method # "OPTIONS"
Headerless(req) == ~req.authorization.present /\ ~req.x_api_key.present
Refused(status, error) ==
    response = GateResponse(status, error) /\ gate.calls = 0 /\ pc = "done"

\* a step in which dispatch ran from its entry to its first await or its response
DispatchStep == pc \in {"idle", "done"} /\ api_keys' = api_keys

\* C1 as stated: a protected request without Authorization and X-API-Key header is
\* answered 401 authentication_required and the endpoint is never invoked, whatever
\* DEBUG is.
C1_AsStated ==
    (Protected(request) /\ Headerless(request)) => Refused(401, "authentication_required")

\* C1, amended: a protected request without Authorization and X-API-Key header is
\* answered 401 authentication_required, the endpoint not invoked, unless DEBUG is
\* set and the process does not run under pytest; then it is passed on, once, as
\* the configured provider with auth_type "development".
C1_HeaderlessRequest ==
    (Protected(request) /\ Headerless(request)) =>
        IF DEBUG /\ ~is_testing
        THEN /\ gate.via = "development"
             /\ gate.calls = 1
             /\ gate.auth = AuthState(PROVIDER_ID, "development")
             /\ response.source # "gate"
        ELSE Refused(401, "authentication_required")

C1_Witness ==
    /\ Protected(request) /\ Headerless(request)
    /\ DEBUG /\ is_testing
    /\ Refused(401, "authentication_required")

\* C2 as stated: every request passed on with an identity from a signed token or
\* an API key carries the configured provider identity.
C2_AdmittedIdentity ==
    (gate.calls >= 1 /\ gate.auth.auth_type \in {"jwt", "api_key"}) =>
        gate.auth.provider_id = PROVIDER_ID

\* the Authorization step asked for the key set and the issuer did not deliver it
KeySetUnavailable == gate.asked /\ gate.fetched = 1 /\ gate.jwks = {}

\* C3 as stated: a protected request that the gate refuses on its Authorization
\* header is answered 401, or 403 when the token verified completely and names
\* another identity (the issuer's key set being available).
C3_RejectionStatus ==
    ( /\ Protected(request)
      /\ HeaderTruthy(request.authorization) /\ ~HeaderTruthy(request.x_api_key)
      /\ gate.calls = 0 /\ pc = "done"
      /\ ~KeySetUnavailable ) =>
        \/ response.status = 401
        \/ /\ response.status = 403
           /\ gate.verified
           /\ FirstClaim(gate.token.jwt.claims) # PROVIDER_ID

KeyRefusedBy(store, key) == key.text \notin DOMAIN store \/ ~store[key.text].active

\* C4 as stated: with an unknown or inactive X-API-Key the gate goes on to the
\* Authorization header, so a request that also carries a valid Authorization
\* credential is passed on.
C4_AsStated ==
    [][ ( /\ DispatchStep
          /\ Protected(request')
          /\ HeaderTruthy(request'.x_api_key)
          /\ KeyRefusedBy(api_keys, request'.x_api_key.head)
          /\ request'.authorization = Header2(Bearer, KeyTest) ) =>
            gate'.calls >= 1 ]_vars

\* C4, amended: a protected request with a non-empty X-API-Key is decided on that
\* key alone: an unknown or inactive key is refused at that step with 401
\* authentication_error, a known active key is passed on; the Authorization
\* header is not evaluated in either case.
C4_ApiKeyDecides ==
    [][ ( /\ DispatchStep
          /\ Protected(request')
          /\ HeaderTruthy(request'.x_api_key) ) =>
            /\ gate'.lookups = <<request'.x_api_key.head.text>>
            /\ gate'.jwt_calls = 0
            /\ ~gate'.asked
            /\ IF KeyRefusedBy(api_keys, request'.x_api_key.head)
               THEN /\ response' = GateResponse(401, AuthErrorCode)
                    /\ gate'.calls = 0 /\ pc' = "done"
               ELSE /\ gate'.calls = 1 /\ pc' = "downstream"
                    /\ gate'.auth.auth_type = "api_key" ]_vars

C4_Witness ==
    /\ Protected(request)
    /\ request.x_api_key = XKey(KeyEnv)
    /\ "mds_env_key_2024" \in DOMAIN api_keys
    /\ ~api_keys["mds_env_key_2024"].active
    /\ request.authorization = Header2(Bearer, JwtOk)
    /\ jwks_cache.filled
    /\ Refused(401, AuthErrorCode)

\* C5: a request on an allow-listed path, or an OPTIONS request, is passed on exactly
\* once with no credential looked at (no API-key lookup, no token verification, no
\* key-set access), and no response for it is the gate's own, whatever its headers.
C5_ExemptPassed ==
    (request.path \in PublicEndpoints \/ request.method = "OPTIONS") =>
        /\ gate.via \in {"public", "options"}
        /\ gate.calls = 1
        /\ gate.lookups = <<>>
        /\ gate.jwt_calls = 0
        /\ ~gate.asked
        /\ gate.auth = NoAuth
        /\ response.source # "gate"

C5_Witness ==
    /\ request.method = "OPTIONS" /\ request.path \notin PublicEndpoints
    /\ request.x_api_key = XKey(KeyUnknown)
    /\ request.authorization = Header2(Bearer, JwtExpired)
    /\ pc = "done" /\ response.kind = "response" /\ response.status = 200

\* the step ran the signed-token step of dispatch (at entry, or after the
\* `except HTTPException: pass` of the API-key attempt)
JwtStep == gate'.jwt_calls = 1 /\ (DispatchStep \/ gate.jwt_calls = 0)

\* C8: over every sequence of verifications, the cache slot changes only by a fetch
\* that succeeded, in a verification that asked for the key set; once the slot is
\* filled it never changes, no step fetches, and a verification that asks for the
\* key set gets the stored one; while it is empty, a verification that asks for
\* the key set fetches, and a fetch that fails leaves the slot empty and the
\* verification failed.
C8_LazyKeySet ==
    [][ /\ (jwks_cache' # jwks_cache =>
                /\ ~jwks_cache.filled /\ jwks_cache'.filled
                /\ JwtStep /\ gate'.asked /\ gate'.fetched = 1
                /\ gate'.jwks = jwks_cache'.keys)
        /\ (JwtStep /\ gate'.fetched = 1 => gate'.asked /\ ~jwks_cache.filled)
        /\ (JwtStep /\ gate'.asked /\ jwks_cache.filled =>
                gate'.fetched = 0 /\ gate'.jwks = jwks_cache.keys)
        /\ (JwtStep /\ gate'.asked /\ ~jwks_cache.filled => gate'.fetched = 1)
        /\ (JwtStep /\ gate'.fetched = 1 /\ ~jwks_cache'.filled =>
                /\ jwks_cache' = EmptyCache
                /\ ~gate'.verified
                /\ gate'.kind = "respond" /\ response'.status = 500)
        /\ (JwtStep /\ ~gate'.asked => gate'.fetched = 0 /\ jwks_cache' = jwks_cache)
      ]_vars

C8_Witness ==
    /\ jwks_cache = [filled |-> TRUE, keys |-> {"kidA"}]
    /\ gate.token = Jwt("jwt.kidB", "kidB", "kidB", FALSE, TRUE, TRUE, Claims(PROVIDER_ID, NoneVal, NoneVal))
    /\ gate.asked /\ gate.fetched = 0 /\ gate.jwks = {"kidA"}
    /\ response.status = 500

(***************************************************************************)
(* Concurrency gate (app/middleware/concurrency.py) -- SpecConcurrency.    *)
(* The asyncio.Semaphore is its counter and its queue of waiters.  The     *)
(* code between two awaits runs without interleaving, so dispatch from its *)
(* entry to the await of call_next is one step, and the end of call_next   *)
(* with the exit of `async with` is another.                               *)
(***************************************************************************)
MaxConcurrent == 2
NumRequests   == 4
ConcRequests  == 1..NumRequests

\* line 35
ConcExemptPaths == {"/", "/health", "/docs", "/redoc", "/openapi.json"}
ConcPaths == {"/health", "/vehicles/", "/trips"}

ConcNew == [error |-> "", path |-> "", pos |-> "new", status |-> 0]
ConcAt(pos, path, status, error) == [error |-> error, path |-> path, pos |-> pos, status |-> status]

\* a semaphore that never reports itself locked
locked_never(value, waiters) == FALSE

\* asyncio.Semaphore.locked
locked(value, waiters) == value = 0 \/ Len(waiters) > 0

\* asyncio.Semaphore.acquire by request r: taken at once when not locked, else r
\* is queued and suspended
acquire(value, waiters, r) ==
    IF ~locked(value, waiters)
    THEN [acquired |-> TRUE, value |-> value - 1, waiters |-> waiters]
    ELSE [acquired |-> FALSE, value |-> value, waiters |-> Append(waiters, r)]

\* asyncio.Semaphore.release: the counter goes up and the first waiter, if any, is
\* woken and takes the slot
release(value, waiters) ==
    IF waiters = <<>>
    THEN [value |-> value + 1, waiters |-> waiters, woken |-> 0]
    ELSE [value |-> value, waiters |-> Tail(waiters), woken |-> Head(waiters)]

InFlight == {r \in DOMAIN cstate : cstate[r].pos = "downstream"}

ConcInit ==
    /\ sem_value = MaxConcurrent
    /\ sem_waiters = <<>>
    /\ cstate = [r \in ConcRequests |-> ConcNew]
    /\ AuthUnused /\ EpUnused /\ ClUnused /\ TrUnused

\* lines 49-52 with the outcome a of acquire
ConcEnter(r, path, a) ==
    /\ sem_value' = a.value
    /\ sem_waiters' = a.waiters
    /\ cstate' = [cstate EXCEPT ![r] =
                    ConcAt(IF a.acquired THEN "downstream" ELSE "waiting", path, 0, "")]

\* dispatch, lines 35-52: request r arrives on path
ConcArrive(r, path) ==
    /\ cstate[r].pos = "new"
    /\ IF path \in ConcExemptPaths
       THEN /\ cstate' = [cstate EXCEPT ![r] = ConcAt("passing", path, 0, "")]
            /\ UNCHANGED <<sem_value, sem_waiters>>
       ELSE IF locked(sem_value, sem_waiters)
       THEN /\ cstate' = [cstate EXCEPT ![r] = ConcAt("rejected", path, 429, "rate_limit_exceeded")]
            /\ UNCHANGED <<sem_value, sem_waiters>>
       ELSE ConcEnter(r, path, acquire(sem_value, sem_waiters, r))
    /\ UNCHANGED <<authVars, epVars, clVars, trVars>>

\* lines 52-56 and the exit of `async with`, with the outcome rel of release
ConcLeave(r, how, rel) ==
    /\ sem_value' = rel.value
    /\ sem_waiters' = rel.waiters
    /\ cstate' = [q \in ConcRequests |->
                    IF q = r THEN [cstate[r] EXCEPT !.pos = how]
                    ELSE IF q = rel.woken THEN [cstate[q] EXCEPT !.pos = "downstream"]
                    ELSE cstate[q]]

\* call_next ends for request r: how = "returned" (line 53) or "raised" (lines 54-56)
ConcFinish(r, how) ==
    /\ cstate[r].pos \in {"downstream", "passing"}
    /\ IF cstate[r].pos = "downstream"
       THEN ConcLeave(r, how, release(sem_value, sem_waiters))
       ELSE /\ cstate' = [cstate EXCEPT ![r].pos = how]
            /\ UNCHANGED <<sem_value, sem_waiters>>
    /\ UNCHANGED <<authVars, epVars, clVars, trVars>>

ConcNext ==
    \/ \E r \in ConcRequests, path \in ConcPaths : ConcArrive(r, path)
    \/ \E r \in ConcRequests, how \in {"returned", "raised"} : ConcFinish(r, how)

SpecConcurrency == ConcInit /\ [][ConcNext]_vars

\* C7: at most N requests hold a slot; the free slots and the requests inside add up
\* to N; no request ever waits; a non-exempt arrival is rejected, with 429
\* rate_limit_exceeded, exactly when N are inside, and enters at once otherwise; when
\* a request inside finishes, returning or raising, its slot is free again.
C7_ConcurrencyLimit ==
    /\ [](/\ Cardinality(InFlight) <= MaxConcurrent
          /\ sem_value + Cardinality(InFlight) = MaxConcurrent
          /\ sem_waiters = <<>>
          /\ \A r \in DOMAIN cstate : cstate[r].pos # "waiting")
    /\ [][\A r \in DOMAIN cstate :
            /\ (cstate[r].pos = "new" /\ cstate'[r].pos # "new"
                    /\ cstate'[r].path \notin ConcExemptPaths) =>
                   IF Cardinality(InFlight) = MaxConcurrent
                   THEN cstate'[r] = ConcAt("rejected", cstate'[r].path, 429, "rate_limit_exceeded")
                   ELSE cstate'[r].pos = "downstream"
            /\ (cstate[r].pos = "downstream" /\ cstate'[r].pos # "downstream") =>
                   /\ cstate'[r].pos \in {"returned", "raised"}
                   /\ sem_value' = sem_value + 1
                   /\ Cardinality(InFlight) = Cardinality({q \in DOMAIN cstate' : cstate'[q].pos = "downstream"}) + 1
         ]_vars

C7_Witness ==
    /\ sem_value = 0
    /\ Cardinality(InFlight) = MaxConcurrent
    /\ \E r \in DOMAIN cstate : cstate[r].pos = "raised"
    /\ \E r \in DOMAIN cstate : cstate[r].pos = "rejected" /\ cstate[r].status = 429

(***************************************************************************)
(* Vehicle state classifier (app/services/transformers.py)                 *)
(*                                              -- SpecClassifier.         *)
(* Times are whole seconds.  A datetime is [wall, tz]: its wall-clock      *)
(* reading in seconds and its tzinfo, "naive" or "utc".  A location row is *)
(* a dict; its timestamp, when present, is None, a str or a datetime (the  *)
(* type field tells which).  The rows come from a BigQuery TIMESTAMP       *)
(* column, or carry the ISO text of a UTC time: every timestamp of the     *)
(* model is in UTC.                                                        *)
(***************************************************************************)
AgeSlack == 1
NowSteps == 2
NowBase  == 100000

NoneTime == [type |-> "NoneType"]
DateTime(wall, tz) == [type |-> "datetime", tz |-> tz, wall |-> wall]
\* a str: form is "empty", "garbage", "iso" (naive ISO text), "iso_z" (ISO text
\* ending in 'Z') or "iso_utc" (ISO text ending in '+00:00')
TimeStr(form, wall) == [form |-> form, type |-> "str", wall |-> wall]

\* bool(timestamp)
TimestampTruthy(t) == t.type # "NoneType" /\ ~(t.type = "str" /\ t.form = "empty")

\* datetime.fromisoformat(timestamp.replace('Z', '+00:00'))
fromisoformat(t) ==
    IF t.form \in {"empty", "garbage"} THEN Raised("ValueError", 0, "Invalid isoformat string")
    ELSE IF t.form = "iso" THEN Returned(DateTime(t.wall, "naive"))
    ELSE Returned(DateTime(t.wall, "utc"))

\* location_time.replace(tzinfo=None): the wall-clock reading is kept, the tzinfo dropped
NaiveOf(dt) == DateTime(dt.wall, "naive")

\* lines 69-75, with the single threshold of one hour
StateOfAgeHourOnly(time_diff) ==
    IF time_diff > 3600 THEN "non_contactable" ELSE "available"

\* lines 69-75, with >= for >
StateOfAgeInclusive(time_diff) ==
    IF time_diff >= 3600 THEN "non_contactable"
    ELSE IF time_diff >= 300 THEN "non_operational"
    ELSE "available"

\* lines 69-75
StateOfAge(time_diff) ==
    IF time_diff > 3600 THEN "non_contactable"
    ELSE IF time_diff > 300 THEN "non_operational"
    ELSE "available"

\* lines 65-75: (now - location_time.replace(tzinfo=None)).total_seconds()
StateAt(now, location_time) == StateOfAge(now - NaiveOf(location_time).wall)

\* lines 58-64
StateOfParsed(now, parsed) ==
    IF parsed.exc # "" THEN "non_contactable" ELSE StateAt(now, parsed.value)

StateOfTimestamp(now, timestamp) ==
    IF ~TimestampTruthy(timestamp) THEN "missing"
    ELSE IF timestamp.type = "str" THEN StateOfParsed(now, fromisoformat(timestamp))
    ELSE StateAt(now, timestamp)

\* location_data.get('timestamp')
GetTimestamp(location_data) ==
    IF "timestamp" \in DOMAIN location_data THEN location_data.timestamp ELSE NoneTime

\* DataTransformer.determine_vehicle_state, now being datetime.utcnow()
determine_vehicle_state(location_data, now) ==
    StateOfTimestamp(now, GetTimestamp(location_data))

ClAges ==
    UNION { (c - AgeSlack)..(c + AgeSlack) : c \in {0, 300, 3600} } \cup {0 - 7200, 7200}
ClNows == { NowBase + 300 * k : k \in 0..NowSteps }

ClTimestamps(now) ==
    {NoneTime, TimeStr("empty", 0), TimeStr("garbage", 0)}
    \cup { TimeStr(f, now - a) : f \in {"iso", "iso_z", "iso_utc"}, a \in ClAges }
    \cup { DateTime(now - a, "utc") : a \in ClAges }

ClRows(now) ==
    { [robot_id |-> "4F403"] }
    \cup { [robot_id |-> "4F403", timestamp |-> t] : t \in ClTimestamps(now) }

ClInit ==
    /\ cl_now \in ClNows
    /\ cl_row \in ClRows(cl_now)
    /\ cl_state = ""
    /\ AuthUnused /\ ConcUnused /\ EpUnused /\ TrUnused

Classify ==
    /\ cl_state = ""
    /\ cl_state' = determine_vehicle_state(cl_row, cl_now)
    /\ UNCHANGED <<cl_row, cl_now, authVars, concVars, epVars, trVars>>

ClNext == Classify

SpecClassifier == ClInit /\ [][ClNext]_vars

\* what the row says, read without the classifier
ClHasTimestamp ==
    /\ "timestamp" \in DOMAIN cl_row
    /\ cl_row.timestamp.type # "NoneType"
    /\ ~(cl_row.timestamp.type = "str" /\ cl_row.timestamp.form = "empty")
ClUnparsable == cl_row.timestamp.type = "str" /\ cl_row.timestamp.form = "garbage"
\* now - timestamp, both in UTC
ClAge == cl_now - cl_row.timestamp.wall
ClAged == cl_state # "" /\ ClHasTimestamp /\ ~ClUnparsable

\* C9: the state returned is missing for a row without timestamp (absent, None or
\* empty), non_contactable for an unparsable string, and otherwise by the age:
\* non_contactable above 3600 s, non_operational above 300 s up to 3600 s, available
\* up to 300 s, negative ages included; no other state is returned.
C9_StateByAge ==
    cl_state # "" =>
        /\ cl_state \in {"missing", "non_contactable", "non_operational", "available"}
        /\ cl_state =
             IF ~ClHasTimestamp THEN "missing"
             ELSE IF ClUnparsable THEN "non_contactable"
             ELSE IF ClAge > 3600 THEN "non_contactable"
             ELSE IF ClAge > 300 /\ ClAge <= 3600 THEN "non_operational"
             ELSE "available"

C9_Witness ==
    /\ ClAged /\ ClAge = 3601 /\ cl_row.timestamp.type = "str"
    /\ cl_state = "non_contactable"

\* C10 as stated: non_operational at exactly 300 s, non_contactable at exactly
\* 3600 s, available at 0 s.
C10_AsStated ==
    ClAged =>
        /\ (ClAge = 300 => cl_state = "non_operational")
        /\ (ClAge = 3600 => cl_state = "non_contactable")
        /\ (ClAge = 0 => cl_state = "available")

\* C10, amended: both thresholds are exclusive: available at exactly 300 s,
\* non_operational at exactly 3600 s, available at 0 s.
C10_Boundaries ==
    ClAged =>
        /\ (ClAge = 300 => cl_state = "available")
        /\ (ClAge = 3600 => cl_state = "non_operational")
        /\ (ClAge = 0 => cl_state = "available")

C10_Witness ==
    /\ ClAged /\ ClAge = 3600 /\ cl_row.timestamp.type = "datetime"
    /\ cl_state = "non_operational"

(***************************************************************************)
(* Data transformer (app/services/transformers.py) and the models it       *)
(* builds (app/models/*.py)                     -- SpecTransform.          *)
(* A warehouse row is a dict.  A column that is NULL and a key that is     *)
(* absent both read as None through dict.get: the model holds them as an   *)
(* absent key.  Coordinates are whole degrees, times whole seconds (as in  *)
(* the classifier), epoch milliseconds 1000 times that.  A UUID made by    *)
(* uuid5 is held as its namespace and the parts of its name.  Building a   *)
(* pydantic model returns the validated object or raises ValidationError.  *)
(***************************************************************************)
MaxRows == 2

\* dict.get(key, default)
DictGet(d, key, default) == IF key \in DOMAIN d THEN d[key] ELSE default

PROVIDER_ID_UUID == "<settings.PROVIDER_ID_UUID>"

\* robot_id_to_device_id as it would be if the name left the robot id out
robot_id_to_device_id_of_provider(robot_id) ==
    [name |-> <<PROVIDER_ID_UUID>>, namespace |-> "NAMESPACE_DNS"]

\* DataTransformer.robot_id_to_device_id: uuid5(NAMESPACE_DNS, f"{provider_id}.{robot_id}"),
\* held as the namespace and the parts of the name
robot_id_to_device_id(robot_id) ==
    [name |-> <<PROVIDER_ID_UUID, robot_id>>, namespace |-> "NAMESPACE_DNS"]
NoDevice == [name |-> <<>>, namespace |-> ""]

\* uuid5(NAMESPACE_DNS, name), the name given by its parts
uuid5(parts) == [name |-> parts, namespace |-> "NAMESPACE_DNS"]

\* the text an f-string "{a}.{b}.{c}" gives uuid5 as the name, for parts that are texts:
\* the parts joined by dots, a dot inside a part kept as it is
RECURSIVE JoinDots(_)
JoinDots(parts) ==
    IF Len(parts) = 0 THEN ""
    ELSE IF Len(parts) = 1 THEN parts[1]
    ELSE parts[1] \o "." \o JoinDots(Tail(parts))

\* models/common.py: VehicleState and EventType
VehicleStates ==
    {"removed", "available", "non_operational", "reserved", "on_trip", "stopped",
     "non_contactable", "missing", "elsewhere"}
EventTypes ==
    {"comms_lost", "comms_restored", "compliance_pick_up", "decommissioned", "not_located",
     "located", "maintenance", "maintenance_pick_up", "maintenance_end",
     "driver_cancellation", "order_drop_off", "order_pick_up", "customer_cancellation",
     "provider_cancellation", "recommission", "reservation_start", "reservation_stop",
     "service_end", "service_start", "trip_end", "trip_enter_jurisdiction",
     "trip_leave_jurisdiction", "trip_resume", "trip_start", "trip_pause"}

\* the table of __get_event_types_for_state with the row of MISSING left out, so that the
\* state falls to the default of line 348
_get_event_types_for_state_default_missing(state) ==
    CASE state = "available"       -> <<"service_start">>
      [] state = "non_operational" -> <<"service_end">>
      [] state = "on_trip"         -> <<"trip_start">>
      [] state = "stopped"         -> <<"trip_pause">>
      [] state = "non_contactable" -> <<"comms_lost">>
      [] state = "elsewhere"       -> <<"trip_leave_jurisdiction">>
      [] state = "reserved"        -> <<"reservation_start">>
      [] state = "removed"         -> <<"decommissioned">>
      [] OTHER                     -> <<"service_start">>

\* DataTransformer.__get_event_types_for_state
_get_event_types_for_state(state) ==
    CASE state = "available"       -> <<"service_start">>
      [] state = "non_operational" -> <<"service_end">>
      [] state = "on_trip"         -> <<"trip_start">>
      [] state = "stopped"         -> <<"trip_pause">>
      [] state = "non_contactable" -> <<"comms_lost">>
      [] state = "missing"         -> <<"not_located">>
      [] state = "elsewhere"       -> <<"trip_leave_jurisdiction">>
      [] state = "reserved"        -> <<"reservation_start">>
      [] state = "removed"         -> <<"decommissioned">>
      [] OTHER                     -> <<"service_start">>

\* row.get('robot_id'), None read as '' (both are falsy, and no caller tells them apart)
RobotIdOf(row) == DictGet(row, "robot_id", "")

\* the bounds of a coordinate pair (models/common.py lines 23-26, models/telemetry.py
\* lines 15-16)
InRange(lat, lng) == lat >= 0 - 90 /\ lat <= 90 /\ lng >= 0 - 180 /\ lng <= 180

NoLocation == [type |-> "NoneType"]

\* models/telemetry.py GPS(lat=..., lng=...)
GPS(lat, lng) ==
    IF InRange(lat, lng) THEN Returned([lat |-> lat, lng |-> lng, type |-> "GPS"])
    ELSE Raised("ValidationError", 0, "GPS: coordinate out of range")

\* DataTransformer.transform_location_to_geojson: a GeoJSONFeature with a Point
\* geometry, coordinates [lng, lat]
transform_location_to_geojson(lat, lng) ==
    IF InRange(lat, lng)
    THEN Returned([coordinates |-> <<lng, lat>>, type |-> "GeoJSONFeature"])
    ELSE Raised("ValidationError", 0, "GeoJSONPoint: coordinate out of range")

\* models/events.py Event(...) without the validator of lines 44-50
EventWithoutLocationRule(fields) ==
    IF fields.location.type \notin {"NoneType", "GPS"}
    THEN Raised("ValidationError", 0, "location: Input should be a valid dictionary or instance of GPS")
    ELSE IF fields.event_types = <<>>
    THEN Raised("ValidationError", 0, "event_types must contain at least one event type")
    ELSE Returned(fields)

\* models/events.py Event(...): the field `location` is Optional[GPS], event_types has
\* at least one item (its items are distinct in every caller), and the validator of
\* lines 44-50 wants a location or a non-empty event_geographies
Event(fields) ==
    IF fields.location.type \notin {"NoneType", "GPS"}
    THEN Raised("ValidationError", 0, "location: Input should be a valid dictionary or instance of GPS")
    ELSE IF fields.event_types = <<>>
    THEN Raised("ValidationError", 0, "event_types must contain at least one event type")
    ELSE IF fields.location.type = "NoneType" /\ fields.event_geographies = <<>>
    THEN Raised("ValidationError", 0, "Either 'location' or 'event_geographies' must be provided")
    ELSE Returned(fields)

\* transformers.py lines 215-220: int(dt.timestamp() * 1000), dt being the parsed str,
\* or the value itself when it is no str; None has no method timestamp()
TimestampMs(timestamp) ==
    IF timestamp.type = "NoneType"
    THEN Raised("AttributeError", 0, "'NoneType' object has no attribute 'timestamp'")
    ELSE IF timestamp.type = "datetime" THEN Returned(1000 * timestamp.wall)
    ELSE IF fromisoformat(timestamp).exc # "" THEN fromisoformat(timestamp)
    ELSE Returned(1000 * timestamp.wall)

\* transformers.py lines 246-247, in whole degrees
default_lat == 39
default_lng == 0 - 77

\* lines 223-227
CurrentLocation(row) ==
    IF "latitude" \in DOMAIN row /\ "longitude" \in DOMAIN row
    THEN transform_location_to_geojson(row.latitude, row.longitude)
    ELSE Returned(NoLocation)

\* lines 246-252
GpsLocation(row) ==
    GPS(DictGet(row, "latitude", default_lat), DictGet(row, "longitude", default_lng))

\* lines 256-269
SelectedOrLocated(selected) == IF selected = <<>> THEN <<"located">> ELSE selected

SelectedEventTypes(vehicle_state, last_event_types) ==
    IF vehicle_state = "missing" THEN <<"not_located">>
    ELSE IF vehicle_state = "non_contactable" THEN <<"comms_lost">>
    ELSE SelectedOrLocated(SelectSeq(last_event_types, LAMBDA et : et \in EventTypes))

\* lines 240, 273-290
LastEvent(robot_id, vehicle_state, last_event_time, gps_location) ==
    Event([device_id |-> robot_id_to_device_id(robot_id),
           event_geographies |-> <<uuid5(<<PROVIDER_ID_UUID, "geography", "default">>)>>,
           event_id |-> uuid5(<<PROVIDER_ID, "event", robot_id, last_event_time>>),
           event_types |-> SelectedEventTypes(vehicle_state,
                                              _get_event_types_for_state(vehicle_state)),
           location |-> gps_location,
           timestamp |-> last_event_time,
           vehicle_state |-> vehicle_state])

\* lines 241, 292-307: the Telemetry object, of the same gps_location; every caller
\* leaves trip_data empty, so trip_ids is the one id made of the robot id
LastTelemetry(robot_id, last_event_time, gps_location) ==
    [device_id |-> robot_id_to_device_id(robot_id),
     journey_id |-> uuid5(<<PROVIDER_ID_UUID, "journey", robot_id>>),
     location |-> gps_location,
     telemetry_id |-> uuid5(<<PROVIDER_ID, "telemetry", robot_id, last_event_time>>),
     timestamp |-> last_event_time,
     trip_ids |-> <<uuid5(<<PROVIDER_ID_UUID, "trip", robot_id>>)>>]

\* lines 322-333
StatusWith(robot_id, vehicle_state, last_event_time, current_location, last_event) ==
    IF last_event.exc # "" THEN last_event
    ELSE Returned([current_location |-> current_location,
                   device_id |-> robot_id_to_device_id(robot_id),
                   last_event |-> last_event.value,
                   last_telemetry |-> LastTelemetry(robot_id, last_event_time,
                                                    last_event.value.location),
                   last_event_time |-> last_event_time,
                   last_event_types |-> _get_event_types_for_state(vehicle_state),
                   vehicle_state |-> vehicle_state])

StatusLocated(robot_id, vehicle_state, last_event_time, current_location, gps_location) ==
    IF current_location.exc # "" THEN current_location
    ELSE IF gps_location.exc # "" THEN gps_location
    ELSE StatusWith(robot_id, vehicle_state, last_event_time, current_location.value,
                    LastEvent(robot_id, vehicle_state, last_event_time, gps_location.value))

StatusAt(row, vehicle_state, ms) ==
    IF ms.exc # "" THEN ms
    ELSE StatusLocated(RobotIdOf(row), vehicle_state, ms.value,
                       CurrentLocation(row), GpsLocation(row))

\* DataTransformer.transform_location_to_vehicle_status(location_data), called at time
\* now; every caller leaves trip_data empty
transform_location_to_vehicle_status(location_data, now) ==
    IF RobotIdOf(location_data) = ""
    THEN Raised("ValueError", 0, "Location data missing robot_id")
    ELSE StatusAt(location_data, determine_vehicle_state(location_data, now),
                  TimestampMs(GetTimestamp(location_data)))

\* one row kept or skipped: the body of the loops of lines 379-388 and 395-401
Kept(out, rest) == IF out.exc # "" THEN rest ELSE <<out.value>> \o rest

\* DataTransformer.batch_transform_vehicle_status(location_data_list), called at time now
RECURSIVE batch_transform_vehicle_status(_, _)
batch_transform_vehicle_status(location_data_list, now) ==
    IF location_data_list = <<>> THEN <<>>
    ELSE Kept(transform_location_to_vehicle_status(Head(location_data_list), now),
              batch_transform_vehicle_status(Tail(location_data_list), now))

\* models/vehicles.py VehicleAttributes(...): class Config: extra = "forbid"
VehicleAttributesFields ==
    {"year", "make", "model", "color", "inspection_date", "equipped_cameras",
     "equipped_lighting", "wheel_count", "width", "length", "height", "weight",
     "top_speed", "storage_capacity"}
VehicleAttributes(fields) ==
    IF DOMAIN fields \subseteq VehicleAttributesFields THEN Returned(fields)
    ELSE Raised("ValidationError", 0, "VehicleAttributes: Extra inputs are not permitted")

\* models/common.py VehicleType: the members of the enumeration
VehicleType == [ROBOT |-> "robot"]

\* transformers.py lines 179-188: Vehicle(..., vehicle_type=VehicleType.DELIVERY_ROBOT, ...)
VehicleOf(robot_id, vehicle_attributes) ==
    IF vehicle_attributes.exc # "" THEN vehicle_attributes
    ELSE IF "DELIVERY_ROBOT" \notin DOMAIN VehicleType
    THEN Raised("AttributeError", 0, "DELIVERY_ROBOT")
    ELSE Returned([device_id |-> robot_id_to_device_id(robot_id),
                   provider_id |-> PROVIDER_ID_UUID,
                   vehicle_id |-> robot_id])

\* DataTransformer.transform_robot_to_vehicle
transform_robot_to_vehicle(robot_data) ==
    IF RobotIdOf(robot_data) = "" THEN Raised("ValueError", 0, "Robot data missing robot_id")
    ELSE VehicleOf(RobotIdOf(robot_data),
                   VehicleAttributes([license_plate |-> RobotIdOf(robot_data),
                                      vin |-> "VIN-" \o RobotIdOf(robot_data)]))

\* DataTransformer.batch_transform_vehicles
RECURSIVE batch_transform_vehicles(_)
batch_transform_vehicles(robot_data_list) ==
    IF robot_data_list = <<>> THEN <<>>
    ELSE Kept(transform_robot_to_vehicle(Head(robot_data_list)),
              batch_transform_vehicles(Tail(robot_data_list)))

\* DataTransformer._generate_trip_id: trip_data.get('job_id', trip_data.get('id', ''))
_generate_trip_id(trip_data) ==
    uuid5(<<PROVIDER_ID_UUID, "trip", DictGet(trip_data, "job_id", DictGet(trip_data, "id", ""))>>)

\* DataTransformer._generate_event_id; an event_time that is absent is held as NoneTime
_generate_event_id(event_data) ==
    uuid5(<<PROVIDER_ID_UUID, "event", DictGet(event_data, "robot_id", ""),
            DictGet(event_data, "event_time", NoneTime),
            DictGet(event_data, "event_type", "")>>)

\* ---- inputs
TrNows == ClNows
TrRobotIds == {"4F403", "4E006"}
\* raw robot ids as the data source may hold them: a known robot or a text with dots
TrRawIds == TrRobotIds \cup {"trip.job-1", "event.4F403"}
TrTimestamps(now) ==
    {NoneTime, TimeStr("empty", 0), TimeStr("garbage", 0),
     TimeStr("iso", now), TimeStr("iso_z", now - 7200)}
    \cup { DateTime(now - a, "utc") : a \in {0, 301, 3601} }
\* the identifying part of a row: robot_id absent, empty or given
TrIdParts == {<<>>, [robot_id |-> ""]} \cup { [robot_id |-> r] : r \in TrRobotIds }
TrTimeParts(now) == {<<>>} \cup { [timestamp |-> t] : t \in TrTimestamps(now) }
TrPlaceParts ==
    {<<>>, [latitude |-> 38], [latitude |-> 38, longitude |-> 0 - 122],
     [latitude |-> 95, longitude |-> 0 - 122]}
TrRows(now) == { i @@ t @@ g : i \in TrIdParts, t \in TrTimeParts(now), g \in TrPlaceParts }
\* the rows of a batch: a sound one, one without robot_id, one without timestamp, one
\* of another robot
TrBatchRows(now) ==
    {[latitude |-> 38, longitude |-> 0 - 122, robot_id |-> "4F403",
      timestamp |-> DateTime(now, "utc")],
     [latitude |-> 38, longitude |-> 0 - 122, timestamp |-> DateTime(now, "utc")],
     [robot_id |-> "4F403"],
     [robot_id |-> "4E006", timestamp |-> DateTime(now - 3601, "utc")]}
SeqsUpTo(S, n) == UNION { [1..k -> S] : k \in 0..n }
\* rows that carry the keys of the identifiers
TrKeyRows ==
    { i @@ j @@ e @@ t :
        i \in { [robot_id |-> r] : r \in TrRobotIds },
        j \in {<<>>, [id |-> "job-2"], [job_id |-> "job-1"], [id |-> "job-2", job_id |-> "job-1"]},
        e \in {<<>>, [event_type |-> "trip_start"], [event_type |-> "trip_end"]},
        t \in {<<>>, [event_time |-> DateTime(NowBase, "utc")],
                [event_time |-> DateTime(NowBase + 1, "utc")]} }

TrInit ==
    /\ TrUnused
    /\ AuthUnused /\ ConcUnused /\ EpUnused /\ ClUnused

GetEventTypesForState(state) ==
    /\ tr_call' = [function |-> "_get_event_types_for_state", state |-> state]
    /\ tr_result' = Returned(_get_event_types_for_state(state))
    /\ UNCHANGED <<authVars, concVars, epVars, clVars>>

TransformLocationToVehicleStatus(location_data, now) ==
    /\ tr_call' = [function |-> "transform_location_to_vehicle_status",
                   location_data |-> location_data, now |-> now]
    /\ tr_result' = transform_location_to_vehicle_status(location_data, now)
    /\ UNCHANGED <<authVars, concVars, epVars, clVars>>

BatchTransformVehicleStatus(location_data_list, now) ==
    /\ tr_call' = [function |-> "batch_transform_vehicle_status",
                   location_data_list |-> location_data_list, now |-> now]
    /\ tr_result' = Returned(batch_transform_vehicle_status(location_data_list, now))
    /\ UNCHANGED <<authVars, concVars, epVars, clVars>>

TransformRobotToVehicle(robot_data) ==
    /\ tr_call' = [function |-> "transform_robot_to_vehicle", robot_data |-> robot_data]
    /\ tr_result' = transform_robot_to_vehicle(robot_data)
    /\ UNCHANGED <<authVars, concVars, epVars, clVars>>

BatchTransformVehicles(robot_data_list) ==
    /\ tr_call' = [function |-> "batch_transform_vehicles",
                   robot_data_list |-> robot_data_list]
    /\ tr_result' = Returned(batch_transform_vehicles(robot_data_list))
    /\ UNCHANGED <<authVars, concVars, epVars, clVars>>

RobotIdToDeviceId(robot_id) ==
    /\ tr_call' = [function |-> "robot_id_to_device_id", robot_id |-> robot_id]
    /\ tr_result' = Returned(robot_id_to_device_id(robot_id))
    /\ UNCHANGED <<authVars, concVars, epVars, clVars>>

GenerateTripId(trip_data) ==
    /\ tr_call' = [function |-> "_generate_trip_id", trip_data |-> trip_data]
    /\ tr_result' = Returned(_generate_trip_id(trip_data))
    /\ UNCHANGED <<authVars, concVars, epVars, clVars>>

GenerateEventId(event_data) ==
    /\ tr_call' = [function |-> "_generate_event_id", event_data |-> event_data]
    /\ tr_result' = Returned(_generate_event_id(event_data))
    /\ UNCHANGED <<authVars, concVars, epVars, clVars>>

TrNext ==
    \/ \E state \in VehicleStates : GetEventTypesForState(state)
    \/ \E now \in TrNows : \E row \in TrRows(now) : TransformLocationToVehicleStatus(row, now)
    \/ \E now \in TrNows : \E rows \in SeqsUpTo(TrBatchRows(now), MaxRows) :
          BatchTransformVehicleStatus(rows, now)
    \/ \E robot_data \in TrIdParts : TransformRobotToVehicle(robot_data)
    \/ \E rows \in SeqsUpTo(TrIdParts, MaxRows) : BatchTransformVehicles(rows)
    \/ \E robot_id \in TrRawIds : RobotIdToDeviceId(robot_id)
    \/ \E row \in TrKeyRows : GenerateTripId(row)
    \/ \E row \in TrKeyRows : GenerateEventId(row)

SpecTransform == TrInit /\ [][TrNext]_vars

TrStatusCall == tr_call.function = "transform_location_to_vehicle_status"

\* C11 as stated: transform_location_to_vehicle_status fails only when robot_id is
\* missing; for every row that has a robot_id, a row with no timestamp or with an
\* unparsable timestamp string included, it returns a status whose vehicle_state is the
\* classifier's result for the row.
C11_StatusForEveryIdentifiedRow ==
    (TrStatusCall /\ RobotIdOf(tr_call.location_data) # "") =>
        /\ tr_result.exc = ""
        /\ tr_result.value.vehicle_state =
              determine_vehicle_state(tr_call.location_data, tr_call.now)

\* the pairs the claim names
ClaimedEventTypes(state) ==
    CASE state = "available"       -> <<"service_start">>
      [] state = "on_trip"         -> <<"trip_start">>
      [] state = "non_contactable" -> <<"comms_lost">>
      [] state = "missing"         -> <<"not_located">>
      [] OTHER                     -> <<>>

NonEmptyEventTypes(types) ==
    types # <<>> /\ \A i \in 1..Len(types) : types[i] \in EventTypes

\* a status pairs its state with the table's event types, on itself and on its last event
StatusPaired(status) ==
    /\ NonEmptyEventTypes(status.last_event_types)
    /\ status.last_event.vehicle_state = status.vehicle_state
    /\ status.last_event.event_types = status.last_event_types
    /\ ClaimedEventTypes(status.vehicle_state) \in {<<>>, status.last_event_types}
    /\ (status.vehicle_state = "missing" => status.last_event_types = <<"not_located">>)

\* C12: for each of the nine vehicle states _get_event_types_for_state returns a
\* non-empty list of EventType members, the one the claim names for available, on_trip,
\* non_contactable and missing; every vehicle status emitted carries, as (vehicle_state,
\* last_event_types) and as its last event's (vehicle_state, event_types), the pair of
\* that table, and missing is paired with not_located only.
C12_StateEventPairs ==
    /\ tr_call.function = "_get_event_types_for_state" =>
          /\ NonEmptyEventTypes(tr_result.value)
          /\ ClaimedEventTypes(tr_call.state) \in {<<>>, tr_result.value}
    /\ (TrStatusCall /\ tr_result.exc = "") => StatusPaired(tr_result.value)
    /\ tr_call.function = "batch_transform_vehicle_status" =>
          \A i \in 1..Len(tr_result.value) : StatusPaired(tr_result.value[i])

C12_Witness ==
    /\ TrStatusCall /\ tr_result.exc = ""
    /\ tr_result.value.vehicle_state = "non_contactable"
    /\ tr_result.value.last_event.event_types = <<"comms_lost">>

\* the key of an identifier, read off a row
JobIdOf(row) == DictGet(row, "job_id", DictGet(row, "id", ""))
EventKeyOf(row) ==
    <<DictGet(row, "robot_id", ""), DictGet(row, "event_time", NoneTime),
      DictGet(row, "event_type", "")>>

\* the device ids of a list of statuses or vehicles follow the robot ids of their rows
DeviceIdsFollow(rows, made) ==
    \A i, j \in 1..Len(made) :
        \E k, l \in 1..Len(rows) :
            /\ RobotIdOf(rows[k]) # "" /\ RobotIdOf(rows[l]) # ""
            /\ made[i].device_id = robot_id_to_device_id(RobotIdOf(rows[k]))
            /\ made[j].device_id = robot_id_to_device_id(RobotIdOf(rows[l]))
            /\ (made[i].device_id = made[j].device_id) = (RobotIdOf(rows[k]) = RobotIdOf(rows[l]))

\* C17: device id, trip id and event id are functions of their key alone (robot id; job
\* id; robot id, event time and event type) under the fixed namespace: rows with the
\* same key get the same id whatever else they hold, and robots with distinct ids get
\* distinct device ids.
C17_IdsByKey ==
    /\ tr_call.function = "robot_id_to_device_id" =>
          /\ tr_result.value.namespace = "NAMESPACE_DNS"
          /\ \A r \in TrRobotIds :
                (robot_id_to_device_id(r) = tr_result.value) = (r = tr_call.robot_id)
    /\ tr_call.function = "_generate_trip_id" =>
          /\ tr_result.value.namespace = "NAMESPACE_DNS"
          /\ \A row \in TrKeyRows :
                JobIdOf(row) = JobIdOf(tr_call.trip_data) =>
                    _generate_trip_id(row) = tr_result.value
    /\ tr_call.function = "_generate_event_id" =>
          /\ tr_result.value.namespace = "NAMESPACE_DNS"
          /\ \A row \in TrKeyRows :
                EventKeyOf(row) = EventKeyOf(tr_call.event_data) =>
                    _generate_event_id(row) = tr_result.value
    /\ tr_call.function = "batch_transform_vehicle_status" =>
          DeviceIdsFollow(tr_call.location_data_list, tr_result.value)

C17_Witness ==
    /\ tr_call.function = "batch_transform_vehicle_status"
    /\ Len(tr_result.value) = 2
    /\ tr_result.value[1].device_id # tr_result.value[2].device_id

(***************************************************************************)
(* Endpoints and the HTTP exception handler (app/endpoints/vehicles.py,    *)
(* events.py, trips.py, app/main.py)            -- SpecEndpoint.           *)
(* The detail of an HTTPException is a str or a dict: [is_dict, text,      *)
(* dict].  A response is [status, body], the body a dict.  Time runs in    *)
(* half hours from the start of operations (2021-05-01T00): an hour        *)
(* parameter YYYY-MM-DDTHH that parses is an even number.  Each call of    *)
(* the data source returns rows or raises.                                 *)
(***************************************************************************)
MaxHour == 6

StrDetail(text) == [dict |-> [error |-> ""], is_dict |-> FALSE, text |-> text]
DictDetail(d) == [dict |-> d, is_dict |-> TRUE, text |-> ""]
\* the two key styles the endpoints use for the detail of an error
ErrorDetail(code, text) == DictDetail([error |-> code, error_description |-> text])
ErrorCodeDetail(code, text) == DictDetail([error_code |-> code, error_details |-> text])

JsonResponse(status, body) == [body |-> body, status |-> status]

\* main.http_exception_handler
http_exception_handler(exc) ==
    JsonResponse(exc.status,
        [error |-> IF exc.detail.is_dict
                   THEN DictGet(exc.detail.dict, "error", "unknown_error")
                   ELSE "unknown_error",
         error_description |-> IF exc.detail.is_dict
                               THEN DictGet(exc.detail.dict, "error_description", "Unknown details")
                               ELSE exc.detail.text])

\* what the application answers when the endpoint ends with out: its return value,
\* or the handler's rendering of the HTTPException it raised
Respond(out) == IF out.exc = "" THEN out.value ELSE http_exception_handler(out)

\* auth.middleware.get_current_provider_id
get_current_provider_id(auth) ==
    IF auth.provider_id = NoneVal /\ auth.auth_type = NoneVal
    THEN HTTPException(401, StrDetail("Not authenticated"))
    ELSE Returned(auth.provider_id)

\* an element of the list the endpoints call active_robots: a robot id (a str), as
\* their loops read it and the mock of the tests gives it, or a row (a dict), as
\* BigQueryService.get_active_robot_list returns it (bigquery.py lines 218-255)
RobotIdStr(text) == [text |-> text, type |-> "str"]
RobotRow(robot_id) == [robot_id |-> robot_id, type |-> "dict"]
NoRobot == [type |-> "NoneType"]
\* f"{robot_id}": the text of a str, the repr of a dict
Format(v) == IF v.type = "str" THEN v.text ELSE "{'robot_id': '" \o v.robot_id \o "', ...}"

\* the loop of vehicles.py lines 54-57 and 146-149: the first element of the list whose
\* device id is the one asked for, None when there is none
RECURSIVE FindRobot(_, _)
FindRobot(active_robots, device_id) ==
    IF active_robots = <<>> THEN NoRobot
    ELSE IF robot_id_to_device_id(Format(Head(active_robots))) = device_id
    THEN Head(active_robots)
    ELSE FindRobot(Tail(active_robots), device_id)

\* `except HTTPException: raise`, `except Exception` -> 500 internal_error, in the
\* key style of vehicles.py and events.py
Except500Code(out) ==
    IF out.exc \in {"", "HTTPException"} THEN out
    ELSE HTTPException(500, ErrorCodeDetail("internal_error", out.detail))

\* the same in the key style of trips.py
Except500(out) ==
    IF out.exc \in {"", "HTTPException"} THEN out
    ELSE HTTPException(500, ErrorDetail("internal_error", out.detail))

VehicleNotFound == HTTPException(404, ErrorCodeDetail("vehicle_not_found", "Vehicle not found"))

GuardedBy(who, out) == IF who.exc # "" THEN who ELSE out

\* the queries a call issued, in order: none when the call ended before the first one
QueriesWhen(passed, queries) == IF passed.exc # "" THEN <<>> ELSE queries

\* vehicles.py lines 69-95
VehicleStatusBody(location_data, now) ==
    IF location_data.exc # "" THEN location_data
    ELSE Returned(JsonResponse(200,
            [vehicles_status |-> batch_transform_vehicle_status(location_data.value, now)]))

\* vehicles.py lines 50-66: the robot asked for, when one is asked for
VehicleStatusTarget(device_id, fleet) ==
    IF device_id = NoDevice THEN Returned(NoRobot)
    ELSE IF fleet.exc # "" THEN fleet
    ELSE IF FindRobot(fleet.value, device_id) = NoRobot THEN VehicleNotFound
    ELSE Returned(FindRobot(fleet.value, device_id))

VehicleStatusLookup(device_id, fleet, location_data, now) ==
    GuardedBy(VehicleStatusTarget(device_id, fleet), VehicleStatusBody(location_data, now))

\* vehicles.get_vehicle_status, called at time now
get_vehicle_status(auth, device_id, fleet, location_data, now) ==
    Except500Code(GuardedBy(get_current_provider_id(auth),
                            VehicleStatusLookup(device_id, fleet, location_data, now)))

VehicleStatusQueries(auth, device_id, fleet) ==
    QueriesWhen(get_current_provider_id(auth),
        (IF device_id = NoDevice THEN <<>> ELSE <<"get_active_robot_list">>)
        \o QueriesWhen(VehicleStatusTarget(device_id, fleet), <<"get_robot_current_status">>))

\* vehicles.py lines 164-168: the loop has no handler of its own, the first element
\* whose transform raises ends it
Appended(out, rest) ==
    IF out.exc # "" THEN out
    ELSE IF rest.exc # "" THEN rest
    ELSE Returned(<<out.value>> \o rest.value)

RECURSIVE VehiclesList(_)
VehiclesList(active_robots) ==
    IF active_robots = <<>> THEN Returned(<<>>)
    ELSE Appended(transform_robot_to_vehicle([robot_id |-> Format(Head(active_robots))]),
                  VehiclesList(Tail(active_robots)))

\* vehicles.py lines 170-181
VehiclesResponse(vehicles) ==
    IF vehicles.exc # "" THEN vehicles
    ELSE Returned(JsonResponse(200, [vehicles |-> vehicles.value]))

\* vehicles.py lines 144-168
VehiclesOf(device_id, active_robots) ==
    IF device_id = NoDevice THEN VehiclesResponse(VehiclesList(active_robots))
    ELSE IF FindRobot(active_robots, device_id) = NoRobot THEN VehicleNotFound
    ELSE VehiclesResponse(VehiclesList(<<FindRobot(active_robots, device_id)>>))

\* vehicles.py lines 131-142
VehiclesLookup(device_id, fleet) ==
    IF fleet.exc # "" THEN fleet
    ELSE IF fleet.value = <<>> THEN Returned(JsonResponse(200, [vehicles |-> <<>>]))
    ELSE VehiclesOf(device_id, fleet.value)

\* vehicles.get_vehicles
get_vehicles(auth, device_id, fleet) ==
    Except500Code(GuardedBy(get_current_provider_id(auth), VehiclesLookup(device_id, fleet)))

VehiclesQueries(auth) == QueriesWhen(get_current_provider_id(auth), <<"get_active_robot_list">>)

\* an hour parameter: text that datetime.strptime(text, "%Y-%m-%dT%H") parses to the
\* time `at`, or text it rejects
HourParam(at) == [at |-> at, parses |-> TRUE]
BadHourParam == [at |-> 0, parses |-> FALSE]

\* events.py line 118, trips.py line 151: datetime(2021, 5, 1), the origin of time
operations_start == 0

\* BigQueryService.check_data_availability, given what its COUNT query returned or
\* raised: `except Exception: return False`
check_data_availability(count_query) ==
    IF count_query.exc # "" THEN FALSE
    ELSE IF count_query.value = <<>> THEN FALSE
    ELSE count_query.value[1].count > 0

\* events.py lines 181-185 and 319-323: the event time of a row in milliseconds
EventTimeMs(event_time) ==
    IF event_time.type = "datetime" THEN Returned(1000 * event_time.wall)
    ELSE IF event_time.type = "NoneType"
    THEN Raised("ValueError", 0, "Invalid isoformat string: 'None'")
    ELSE IF fromisoformat(event_time).exc # "" THEN fromisoformat(event_time)
    ELSE Returned(1000 * event_time.wall)

\* events.py lines 194-204 and 332-342
EventTypesOfRow(event_type_str) ==
    IF event_type_str = "trip_start" THEN <<"trip_start">>
    ELSE IF event_type_str = "trip_end" THEN <<"trip_end">>
    ELSE <<"located">>
\* the state as it would be if trip_end, too, gave on_trip
VehicleStateOfTripRow(event_type_str) ==
    IF event_type_str \in {"trip_start", "trip_end"} THEN "on_trip" ELSE "available"
VehicleStateOfRow(event_type_str) ==
    IF event_type_str = "trip_start" THEN "on_trip" ELSE "available"

\* events.py lines 206-218 and 344-356: Event(..., location=event_location), the
\* location a GeoJSONFeature or None, and no event_geographies
EventLocated(event_data, event_time_ms, event_location) ==
    IF event_location.exc # "" THEN event_location
    ELSE Event([device_id |-> robot_id_to_device_id(RobotIdOf(event_data)),
                event_geographies |-> <<>>,
                event_id |-> _generate_event_id(event_data),
                event_types |-> EventTypesOfRow(DictGet(event_data, "event_type", "other")),
                location |-> event_location.value,
                timestamp |-> event_time_ms,
                vehicle_state |-> VehicleStateOfRow(DictGet(event_data, "event_type", "other"))])

\* events.py lines 178-218 and 316-356
EventOfRow(event_data, event_time_ms) ==
    IF event_time_ms.exc # "" THEN event_time_ms
    ELSE EventLocated(event_data, event_time_ms.value, CurrentLocation(event_data))

\* the loop of events.py lines 171-222 and 309-360
RECURSIVE EventsOf(_)
EventsOf(events_data) ==
    IF events_data = <<>> THEN <<>>
    ELSE IF RobotIdOf(Head(events_data)) = "" THEN EventsOf(Tail(events_data))
    ELSE Kept(EventOfRow(Head(events_data),
                         EventTimeMs(DictGet(Head(events_data), "event_time", NoneTime))),
              EventsOf(Tail(events_data)))

\* events.py lines 148-226
EventsBody(events_data) ==
    IF events_data.exc # "" THEN events_data
    ELSE Returned(JsonResponse(200, [events |-> EventsOf(events_data.value)]))

\* events.py lines 135-138: hours_ago < 2 and not data_available
StillProcessing(event_time, now, data_available) ==
    now - event_time.at < 4 /\ ~data_available

\* events.py lines 132-146
EventsWhenAvailable(event_time, now, data_available, events_data) ==
    IF StillProcessing(event_time, now, data_available)
    THEN Returned(JsonResponse(202, [error_code |-> "data_processing",
                                     error_details |-> "Data for this hour is still being processed"]))
    ELSE EventsBody(events_data)

\* events.py lines 96-130
EventsChecked(event_time) ==
    IF ~event_time.parses
    THEN HTTPException(400, ErrorCodeDetail("invalid_event_time", "Invalid event_time format"))
    ELSE IF event_time.at < operations_start
    THEN HTTPException(404, ErrorCodeDetail("no_operation",
                                            "No operations during the requested time period"))
    ELSE Returned(event_time.at)

EventsValidated(event_time, now, data_available, events_data) ==
    GuardedBy(EventsChecked(event_time),
              EventsWhenAvailable(event_time, now, data_available, events_data))

\* events.get_historical_events, called at time now; count_query is the outcome of
\* the query of check_data_availability, events_data that of get_robot_events
get_historical_events(auth, event_time, now, count_query, events_data) ==
    Except500Code(GuardedBy(get_current_provider_id(auth),
        EventsValidated(event_time, now, check_data_availability(count_query), events_data)))

HistoricalEventsQueries(auth, event_time, now, count_query) ==
    QueriesWhen(GuardedBy(get_current_provider_id(auth), EventsChecked(event_time)),
        <<"check_data_availability">>
        \o (IF StillProcessing(event_time, now, check_data_availability(count_query))
            THEN <<>> ELSE <<"get_robot_events">>))

\* trips.py lines 37-45: a datetime in milliseconds, 0 for None
TripTimeMs(t) == IF t.type = "datetime" THEN 1000 * t.wall ELSE 0

Abs(n) == IF n < 0 THEN 0 - n ELSE n
\* trips.py lines 80-90 in whole degrees, truncated as int(...) does. Along a meridian
\* the great-circle distance is R * dlat in radians, R = 6371000 m: 111194.926 m for a
\* degree. Between meridians a stand-in that, like the distance, is never negative
\* and is 0 only between equal points.
haversine_distance(lat1, lon1, lat2, lon2) ==
    IF lon1 = lon2
    THEN 111194 * Abs(lat2 - lat1) + (926 * Abs(lat2 - lat1)) \div 1000
    ELSE 111194 * (Abs(lat2 - lat1) + Abs(lon2 - lon1))

\* trips.py lines 75-90: a coordinate that is 0 is falsy
TripDistance(trip_data) ==
    IF DictGet(trip_data, "trip_distance_meters", 0) = 0
       /\ trip_data.start_latitude # 0 /\ trip_data.start_longitude # 0
       /\ trip_data.end_latitude # 0 /\ trip_data.end_longitude # 0
    THEN haversine_distance(trip_data.start_latitude, trip_data.start_longitude,
                            trip_data.end_latitude, trip_data.end_longitude)
    ELSE DictGet(trip_data, "trip_distance_meters", 0)

\* models/trips.py Trip(...) as it would be if start_location and end_location were
\* of type GPS
TripOfGps(fields) ==
    IF fields.duration < 0 \/ fields.distance < 0
    THEN Raised("ValidationError", 0, "Input should be greater than or equal to 0")
    ELSE Returned(fields)

\* models/trips.py Trip(...): duration and distance are at least 0, start_location and
\* end_location are of type GeoJSONFeature
Trip(fields) ==
    IF fields.duration < 0 \/ fields.distance < 0
    THEN Raised("ValidationError", 0, "Input should be greater than or equal to 0")
    ELSE IF fields.start_location.type # "GeoJSONFeature"
            \/ fields.end_location.type # "GeoJSONFeature"
    THEN Raised("ValidationError", 0,
                "Input should be a valid dictionary or instance of GeoJSONFeature")
    ELSE Returned(fields)

\* trips.py lines 60-105
TripLocated(trip_data, start_location, end_location) ==
    IF start_location.exc # "" THEN start_location
    ELSE IF end_location.exc # "" THEN end_location
    ELSE Trip([device_id |-> robot_id_to_device_id(RobotIdOf(trip_data)),
               distance |-> TripDistance(trip_data),
               duration |-> DictGet(trip_data, "trip_duration_seconds", 0),
               end_location |-> end_location.value,
               end_time |-> TripTimeMs(DictGet(trip_data, "trip_end", NoneTime)),
               start_location |-> start_location.value,
               start_time |-> TripTimeMs(DictGet(trip_data, "trip_start", NoneTime)),
               trip_id |-> _generate_trip_id(trip_data)])

\* trips.transform_trip_data_to_mds
transform_trip_data_to_mds(trip_data) ==
    IF RobotIdOf(trip_data) = "" THEN Raised("ValueError", 0, "Trip data missing robot_id")
    ELSE IF {"start_latitude", "start_longitude"} \ DOMAIN trip_data # {}
    THEN Raised("ValueError", 0, "Trip data missing start location coordinates")
    ELSE IF {"end_latitude", "end_longitude"} \ DOMAIN trip_data # {}
    THEN Raised("ValueError", 0, "Trip data missing end location coordinates")
    ELSE TripLocated(trip_data, GPS(trip_data.start_latitude, trip_data.start_longitude),
                     GPS(trip_data.end_latitude, trip_data.end_longitude))

\* the loop of trips.py lines 187-194
RECURSIVE TripsOf(_)
TripsOf(trip_data) ==
    IF trip_data = <<>> THEN <<>>
    ELSE Kept(transform_trip_data_to_mds(Head(trip_data)), TripsOf(Tail(trip_data)))

\* trips.py lines 178-198
TripsBody(trip_data) ==
    IF trip_data.exc # "" THEN trip_data
    ELSE Returned(JsonResponse(200, [trips |-> TripsOf(trip_data.value)]))

\* trips.py lines 128-161
TripsChecked(end_time, now) ==
    IF ~end_time.parses
    THEN HTTPException(400, ErrorDetail("invalid_end_time", "Invalid end_time format"))
    ELSE IF end_time.at >= now
    THEN HTTPException(404, ErrorDetail("future_time", "Cannot retrieve data for future hours"))
    ELSE IF end_time.at < operations_start
    THEN HTTPException(404, ErrorDetail("no_operation",
                                        "No operations during the requested time period"))
    ELSE Returned(end_time.at)

\* trips.py lines 126-198: the check of data availability and the 202 of lines 163-176
\* are commented out
TripsValidated(end_time, now, trip_data) ==
    GuardedBy(TripsChecked(end_time, now), TripsBody(trip_data))

\* trips.get_trips, called at time now
get_trips(auth, end_time, now, trip_data) ==
    Except500(GuardedBy(get_current_provider_id(auth), TripsValidated(end_time, now, trip_data)))

TripsQueries(auth, end_time, now) ==
    QueriesWhen(GuardedBy(get_current_provider_id(auth), TripsChecked(end_time, now)),
                <<"get_robot_trips">>)

\* events.py lines 258-292: the range [start_time, end_time) of get_recent_events
two_weeks == 672
RangeChecked(start_time, end_time, now) ==
    IF ~start_time.parses \/ ~end_time.parses
    THEN HTTPException(400, ErrorCodeDetail("invalid_time_range", "Invalid timestamp format"))
    ELSE IF start_time.at >= end_time.at
    THEN HTTPException(400, ErrorCodeDetail("invalid_time_range",
                                            "start_time must be before end_time"))
    ELSE IF start_time.at < now - two_weeks
    THEN HTTPException(400, ErrorCodeDetail("time_range_too_old",
                                            "start_time cannot be more than 2 weeks ago"))
    ELSE Returned(start_time.at)

\* list.sort(key=lambda x: x.timestamp): the sort is stable
RECURSIVE InsertByTimestamp(_, _)
InsertByTimestamp(sorted, x) ==
    IF sorted = <<>> THEN <<x>>
    ELSE IF sorted[Len(sorted)].timestamp <= x.timestamp THEN Append(sorted, x)
    ELSE Append(InsertByTimestamp(SubSeq(sorted, 1, Len(sorted) - 1), x), sorted[Len(sorted)])
RECURSIVE SortByTimestamp(_)
SortByTimestamp(list) ==
    IF list = <<>> THEN <<>>
    ELSE InsertByTimestamp(SortByTimestamp(SubSeq(list, 1, Len(list) - 1)), list[Len(list)])

\* events.py lines 294-367
RecentEventsBody(events_data) ==
    IF events_data.exc # "" THEN events_data
    ELSE Returned(JsonResponse(200, [events |-> SortByTimestamp(EventsOf(events_data.value))]))

\* events.get_recent_events, called at time now
get_recent_events(auth, start_time, end_time, now, events_data) ==
    Except500Code(GuardedBy(get_current_provider_id(auth),
        GuardedBy(RangeChecked(start_time, end_time, now), RecentEventsBody(events_data))))

RecentEventsQueries(auth, start_time, end_time, now) ==
    QueriesWhen(GuardedBy(get_current_provider_id(auth), RangeChecked(start_time, end_time, now)),
                <<"get_robot_events">>)

\* telemetry.py lines 139-141: job_id or id or robot_id
TelemetryJobId(telemetry_record) ==
    IF DictGet(telemetry_record, "job_id", "") # "" THEN telemetry_record.job_id
    ELSE IF DictGet(telemetry_record, "id", "") # "" THEN telemetry_record.id
    ELSE RobotIdOf(telemetry_record)

\* f"{device_id}": the text of a device id
DeviceIdStr(device_id) == "uuid5(" \o device_id.name[1] \o "." \o device_id.name[2] \o ")"
\* telemetry.py lines 157 and 181:
\* uuid5(NAMESPACE_DNS, f"{settings.PROVIDER_ID}.telemetry.{device_id}.{time_ms}")
telemetry_id_of(device_id, time_ms) ==
    uuid5(<<PROVIDER_ID, "telemetry", DeviceIdStr(device_id), time_ms>>)

\* telemetry.py lines 146-166 and 171-191: the point of one end of the trip, as a list
\* of one item, or the failure of its GPS
TelemetryPoint(telemetry_record, time_ms, gps) ==
    IF gps.exc # "" THEN gps
    ELSE Returned(<<[device_id |-> robot_id_to_device_id(RobotIdOf(telemetry_record)),
                     journey_id |-> uuid5(<<PROVIDER_ID, "journey",
                                            TelemetryJobId(telemetry_record)>>),
                     location |-> gps.value,
                     telemetry_id |-> telemetry_id_of(
                                         robot_id_to_device_id(RobotIdOf(telemetry_record)),
                                         time_ms),
                     timestamp |-> time_ms,
                     trip_ids |-> <<_generate_trip_id([job_id |-> TelemetryJobId(telemetry_record)])>>]>>)

\* the point of the end whose keys are given, none when a coordinate is None or the
\* time is not after the epoch
TelemetryEnd(telemetry_record, time_key, lat_key, lng_key) ==
    IF {lat_key, lng_key} \ DOMAIN telemetry_record # {}
       \/ TripTimeMs(DictGet(telemetry_record, time_key, NoneTime)) <= 0
    THEN Returned(<<>>)
    ELSE TelemetryPoint(telemetry_record,
                        TripTimeMs(DictGet(telemetry_record, time_key, NoneTime)),
                        GPS(telemetry_record[lat_key], telemetry_record[lng_key]))

\* telemetry.py lines 124-195: what one record appends to telemetry_points; the start
\* point is appended before the end point is built
PointsOfEnds(start, end) ==
    IF start.exc # "" THEN <<>>
    ELSE IF end.exc # "" THEN start.value
    ELSE start.value \o end.value

PointsOfRecord(telemetry_record) ==
    IF RobotIdOf(telemetry_record) = "" THEN <<>>
    ELSE PointsOfEnds(
            TelemetryEnd(telemetry_record, "trip_start", "start_latitude", "start_longitude"),
            TelemetryEnd(telemetry_record, "trip_end", "end_latitude", "end_longitude"))

RECURSIVE TelemetryPoints(_)
TelemetryPoints(telemetry_data) ==
    IF telemetry_data = <<>> THEN <<>>
    ELSE PointsOfRecord(Head(telemetry_data)) \o TelemetryPoints(Tail(telemetry_data))

\* telemetry.py lines 98-201
TelemetryBody(telemetry_data) ==
    IF telemetry_data.exc # ""
    THEN HTTPException(500, ErrorDetail("database_error", "Failed to retrieve telemetry data"))
    ELSE Returned(JsonResponse(200,
            [telemetry |-> SortByTimestamp(TelemetryPoints(telemetry_data.value))]))

\* telemetry.py lines 62-96: the check against the current time is commented out
TelemetryChecked(telemetry_time) ==
    IF ~telemetry_time.parses
    THEN HTTPException(400, ErrorDetail("invalid_telemetry_time", "Invalid telemetry_time format"))
    ELSE IF telemetry_time.at < operations_start
    THEN HTTPException(404, ErrorDetail("no_operation",
                                        "No operations during the requested time period"))
    ELSE Returned(telemetry_time.at)

\* telemetry.get_telemetry
get_telemetry(auth, telemetry_time, telemetry_data) ==
    Except500(GuardedBy(get_current_provider_id(auth),
        GuardedBy(TelemetryChecked(telemetry_time), TelemetryBody(telemetry_data))))

TelemetryQueries(auth, telemetry_time) ==
    QueriesWhen(GuardedBy(get_current_provider_id(auth), TelemetryChecked(telemetry_time)),
                <<"get_robot_telemetry">>)

\* ---- inputs
EpAuths == {AuthState(PROVIDER_ID, "jwt"), AuthState("test-provider-1", "api_key")}
EpDevices == {NoDevice, robot_id_to_device_id("4F403"), robot_id_to_device_id("9Z999")}
DataSourceError == Raised("Exception", 0, "BigQuery query failed")
\* what get_active_robot_list gives: ids where the service is the mock of the tests,
\* rows where it is BigQueryService
EpFleets ==
    {Returned(<<>>), Returned(<<RobotIdStr("4F403")>>),
     Returned(<<RobotIdStr("4E006"), RobotIdStr("4F403")>>),
     Returned(<<RobotRow("4F403")>>), DataSourceError}
\* datetime.utcnow() of the status transform, in seconds
EpStatusNow == NowBase + 300
EpSoundStatusRow ==
    [latitude |-> 38, longitude |-> 0 - 122, robot_id |-> "4F403",
     timestamp |-> DateTime(EpStatusNow, "utc")]
EpStatusRows ==
    {Returned(<<>>), Returned(<<EpSoundStatusRow>>),
     Returned(<<[robot_id |-> "4E006"], EpSoundStatusRow>>), DataSourceError}
\* what the COUNT query of check_data_availability gives
EpCounts ==
    {Returned(<<[count |-> 0]>>), Returned(<<[count |-> 3]>>), Returned(<<>>), DataSourceError}
EpEventRow ==
    [event_time |-> DateTime(NowBase, "utc"), event_type |-> "trip_start",
     latitude |-> 38, longitude |-> 0 - 122, robot_id |-> "4F403"]
EpEventRows ==
    {Returned(<<>>), Returned(<<EpEventRow>>),
     Returned(<<[event_time |-> DateTime(NowBase, "utc"), event_type |-> "trip_end",
                 robot_id |-> "4F403"],
                [event_time |-> DateTime(NowBase, "utc"), latitude |-> 38,
                 longitude |-> 0 - 122],
                [event_time |-> DateTime(NowBase, "utc"), event_type |-> "battery_low",
                 latitude |-> 38, longitude |-> 0 - 122, robot_id |-> "4E006"],
                [event_time |-> DateTime(NowBase + 1, "utc"), latitude |-> 38,
                 longitude |-> 0 - 122, robot_id |-> "4E006"]>>),
     DataSourceError}
EpTripRow ==
    [end_latitude |-> 39, end_longitude |-> 0 - 122, job_id |-> "job-1", robot_id |-> "4F403",
     start_latitude |-> 38, start_longitude |-> 0 - 122, trip_distance_meters |-> 1200,
     trip_duration_seconds |-> 600, trip_end |-> DateTime(NowBase + 600, "utc"),
     trip_start |-> DateTime(NowBase, "utc")]
\* a trip with a start and no end, one that starts on the equator, one that ends
\* before it starts, one off the globe
EpTripRows ==
    {Returned(<<>>), Returned(<<EpTripRow>>),
     Returned(<<[end_latitude |-> 39, end_longitude |-> 0 - 122, job_id |-> "job-2",
                 robot_id |-> "4F403", start_latitude |-> 38, start_longitude |-> 0 - 122,
                 trip_start |-> DateTime(NowBase, "utc")],
                [end_latitude |-> 1, end_longitude |-> 0 - 122, job_id |-> "job-5",
                 robot_id |-> "4E006", start_latitude |-> 0, start_longitude |-> 0 - 122,
                 trip_duration_seconds |-> 600, trip_end |-> DateTime(NowBase + 600, "utc"),
                 trip_start |-> DateTime(NowBase, "utc")]>>),
     Returned(<<[end_latitude |-> 39, end_longitude |-> 0 - 122, job_id |-> "job-3",
                 robot_id |-> "4E006", start_latitude |-> 38, start_longitude |-> 0 - 122,
                 trip_duration_seconds |-> 0 - 600, trip_end |-> DateTime(NowBase - 600, "utc"),
                 trip_start |-> DateTime(NowBase, "utc")],
                [end_latitude |-> 95, end_longitude |-> 0 - 122, job_id |-> "job-4",
                 robot_id |-> "4E006", start_latitude |-> 38, start_longitude |-> 0 - 122,
                 trip_duration_seconds |-> 600, trip_end |-> DateTime(NowBase + 600, "utc"),
                 trip_start |-> DateTime(NowBase, "utc")]>>),
     DataSourceError}
\* the rows of get_robot_telemetry, ORDER BY trip_start ASC: a sound trip, then one
\* that began later and whose end is off the globe, then one that ended before the
\* first began
EpTelemetryRows ==
    {Returned(<<>>), Returned(<<EpTripRow>>),
     Returned(<<EpTripRow,
                [end_latitude |-> 95, end_longitude |-> 0 - 122, job_id |-> "job-4",
                 robot_id |-> "4E006", start_latitude |-> 38, start_longitude |-> 0 - 122,
                 trip_end |-> DateTime(NowBase + 900, "utc"),
                 trip_start |-> DateTime(NowBase + 300, "utc")]>>),
     DataSourceError}
\* start_time and end_time of get_recent_events at time now
EpRanges(now) ==
    {<<BadHourParam, HourParam(now)>>}
    \cup { <<HourParam(now - d), HourParam(now - d + e)>> :
              d \in {two_weeks + 1, two_weeks, 2}, e \in {0, 2} }
EpHours == {BadHourParam} \cup {HourParam(2 * h) : h \in (0 - 1)..MaxHour}
\* datetime.utcnow(): half past an hour
EpNows == {2 * MaxHour - 3, 2 * MaxHour - 1}

EpInit ==
    /\ EpUnused
    /\ AuthUnused /\ ConcUnused /\ ClUnused /\ TrUnused

GetVehicleStatus(auth, device_id, fleet, location_data, now) ==
    /\ ep_call' = [auth |-> auth, device_id |-> device_id, endpoint |-> "get_vehicle_status",
                   fleet |-> fleet, location_data |-> location_data, now |-> now]
    /\ ep_queries' = VehicleStatusQueries(auth, device_id, fleet)
    /\ ep_response' = Respond(get_vehicle_status(auth, device_id, fleet, location_data, now))
    /\ UNCHANGED <<authVars, concVars, clVars, trVars>>

GetVehicles(auth, device_id, fleet) ==
    /\ ep_call' = [auth |-> auth, device_id |-> device_id, endpoint |-> "get_vehicles",
                   fleet |-> fleet]
    /\ ep_queries' = VehiclesQueries(auth)
    /\ ep_response' = Respond(get_vehicles(auth, device_id, fleet))
    /\ UNCHANGED <<authVars, concVars, clVars, trVars>>

GetHistoricalEvents(auth, event_time, now, count_query, events_data) ==
    /\ ep_call' = [auth |-> auth, count_query |-> count_query,
                   endpoint |-> "get_historical_events", event_time |-> event_time,
                   events_data |-> events_data, now |-> now]
    /\ ep_queries' = HistoricalEventsQueries(auth, event_time, now, count_query)
    /\ ep_response' =
          Respond(get_historical_events(auth, event_time, now, count_query, events_data))
    /\ UNCHANGED <<authVars, concVars, clVars, trVars>>

\* count_query is what the COUNT query of check_data_availability would give for the
\* hour: get_trips does not issue it
GetTrips(auth, end_time, now, count_query, trip_data) ==
    /\ ep_call' = [auth |-> auth, count_query |-> count_query, end_time |-> end_time,
                   endpoint |-> "get_trips", now |-> now, trip_data |-> trip_data]
    /\ ep_queries' = TripsQueries(auth, end_time, now)
    /\ ep_response' = Respond(get_trips(auth, end_time, now, trip_data))
    /\ UNCHANGED <<authVars, concVars, clVars, trVars>>

GetRecentEvents(auth, start_time, end_time, now, events_data) ==
    /\ ep_call' = [auth |-> auth, end_time |-> end_time, endpoint |-> "get_recent_events",
                   events_data |-> events_data, now |-> now, start_time |-> start_time]
    /\ ep_queries' = RecentEventsQueries(auth, start_time, end_time, now)
    /\ ep_response' = Respond(get_recent_events(auth, start_time, end_time, now, events_data))
    /\ UNCHANGED <<authVars, concVars, clVars, trVars>>

GetTelemetry(auth, telemetry_time, telemetry_data) ==
    /\ ep_call' = [auth |-> auth, endpoint |-> "get_telemetry",
                   telemetry_data |-> telemetry_data, telemetry_time |-> telemetry_time]
    /\ ep_queries' = TelemetryQueries(auth, telemetry_time)
    /\ ep_response' = Respond(get_telemetry(auth, telemetry_time, telemetry_data))
    /\ UNCHANGED <<authVars, concVars, clVars, trVars>>

EpNext ==
    \/ \E auth \in EpAuths, device_id \in EpDevices, fleet \in EpFleets, rows \in EpStatusRows :
          GetVehicleStatus(auth, device_id, fleet, rows, EpStatusNow)
    \/ \E auth \in EpAuths, device_id \in EpDevices, fleet \in EpFleets :
          GetVehicles(auth, device_id, fleet)
    \/ \E auth \in EpAuths, event_time \in EpHours, now \in EpNows, count_query \in EpCounts,
          rows \in EpEventRows :
          GetHistoricalEvents(auth, event_time, now, count_query, rows)
    \/ \E auth \in EpAuths, end_time \in EpHours, now \in EpNows, rows \in EpTripRows :
          \E count_query \in {Returned(<<[count |-> 0]>>), Returned(<<[count |-> 3]>>)} :
             GetTrips(auth, end_time, now, count_query, rows)
    \/ \E auth \in EpAuths, now \in EpNows, rows \in EpEventRows :
          \E range \in EpRanges(now) : GetRecentEvents(auth, range[1], range[2], now, rows)
    \/ \E auth \in EpAuths, telemetry_time \in EpHours, rows \in EpTelemetryRows :
          GetTelemetry(auth, telemetry_time, rows)

SpecEndpoint == EpInit /\ [][EpNext]_vars

GenericCodes == {"unknown_error", "authentication_error"}
EpDeviceUnknown ==
    /\ ep_call.endpoint \in {"get_vehicles", "get_vehicle_status"}
    /\ ep_call.device_id # NoDevice
    /\ ep_call.fleet.exc = ""
    /\ FindRobot(ep_call.fleet.value, ep_call.device_id) = NoRobot

\* C6 as stated: every error response and every 202 has a body with the fields error
\* and error_description, error being a specific code and no generic placeholder; a
\* lookup of an unknown device id is answered 404 with error vehicle_not_found.
C6_ErrorBodies ==
    /\ (ep_response.status >= 400 \/ ep_response.status = 202) =>
          /\ DOMAIN ep_response.body = {"error", "error_description"}
          /\ ep_response.body.error \notin GenericCodes
    /\ EpDeviceUnknown =>
          /\ ep_response.status = 404
          /\ DictGet(ep_response.body, "error", "") = "vehicle_not_found"

\* what the upstream query of the call gave: the rows, or the failure
QueryOutcome(query) ==
    CASE query = "get_active_robot_list" -> ep_call.fleet
      [] query = "get_robot_current_status" -> ep_call.location_data
      [] query = "check_data_availability" -> ep_call.count_query
      [] query = "get_robot_events" -> ep_call.events_data
      [] query = "get_robot_trips" -> ep_call.trip_data
      [] query = "get_robot_telemetry" -> ep_call.telemetry_data
FailedQuery == \E i \in 1..Len(ep_queries) : QueryOutcome(ep_queries[i]).exc # ""

\* C13 as stated: whenever an upstream query issued for a request fails, the request is
\* answered 5xx; the failure is never reported as an empty result or as 202
\* data_processing.
C13_UpstreamFailureIs5xx == FailedQuery => ep_response.status >= 500

\* the rows of a bulk transform that a claim calls successfully transformed, in
\* input order: for telemetry, the points of the records none of whose points failed
TelemetryRecordFails(telemetry_record) ==
    \/ TelemetryEnd(telemetry_record, "trip_start", "start_latitude", "start_longitude").exc # ""
    \/ TelemetryEnd(telemetry_record, "trip_end", "end_latitude", "end_longitude").exc # ""
RECURSIVE PointsOfSoundRecords(_)
PointsOfSoundRecords(telemetry_data) ==
    IF telemetry_data = <<>> THEN <<>>
    ELSE (IF TelemetryRecordFails(Head(telemetry_data)) THEN <<>>
          ELSE PointsOfRecord(Head(telemetry_data)))
         \o PointsOfSoundRecords(Tail(telemetry_data))
RECURSIVE RobotDataOf(_)
RobotDataOf(active_robots) ==
    IF active_robots = <<>> THEN <<>>
    ELSE <<[robot_id |-> Format(Head(active_robots))]>> \o RobotDataOf(Tail(active_robots))

\* the list a list endpoint answered with, and the rows it was made from
AnsweredList ==
    CASE ep_call.endpoint = "get_vehicles" -> ep_response.body.vehicles
      [] ep_call.endpoint = "get_vehicle_status" -> ep_response.body.vehicles_status
      [] ep_call.endpoint = "get_trips" -> ep_response.body.trips
      [] ep_call.endpoint \in {"get_historical_events", "get_recent_events"} ->
            ep_response.body.events
      [] ep_call.endpoint = "get_telemetry" -> ep_response.body.telemetry
SoundRowsInOrder ==
    CASE ep_call.endpoint = "get_vehicles" ->
            batch_transform_vehicles(RobotDataOf(
                IF ep_call.device_id = NoDevice THEN ep_call.fleet.value
                ELSE IF FindRobot(ep_call.fleet.value, ep_call.device_id) = NoRobot THEN <<>>
                ELSE <<FindRobot(ep_call.fleet.value, ep_call.device_id)>>))
      [] ep_call.endpoint = "get_vehicle_status" ->
            batch_transform_vehicle_status(ep_call.location_data.value, ep_call.now)
      [] ep_call.endpoint = "get_trips" -> TripsOf(ep_call.trip_data.value)
      [] ep_call.endpoint \in {"get_historical_events", "get_recent_events"} ->
            EventsOf(ep_call.events_data.value)
      [] ep_call.endpoint = "get_telemetry" -> PointsOfSoundRecords(ep_call.telemetry_data.value)

\* C14 as stated: in every list endpoint a row whose transform fails is skipped and
\* the answer is exactly the successfully transformed rows in input order; when no
\* upstream query failed, no row turns the response into a server error.
C14_BadRowsSkipped ==
    /\ ~FailedQuery => ep_response.status < 500
    /\ ep_response.status = 200 => AnsweredList = SoundRowsInOrder

\* the hour parameter of a call of an hourly endpoint
HourlyEndpoints == {"get_trips", "get_historical_events", "get_telemetry"}
HourOfCall ==
    CASE ep_call.endpoint = "get_trips" -> ep_call.end_time
      [] ep_call.endpoint = "get_historical_events" -> ep_call.event_time
      [] ep_call.endpoint = "get_telemetry" -> ep_call.telemetry_time
RejectedWith(status, code) ==
    /\ ep_response.status = status
    /\ DictGet(ep_response.body, "error", "") = code
    /\ ep_queries = <<>>

\* C15 as stated: on /trips, /events/historical and /telemetry a malformed hour is
\* answered 400, on /trips an hour at or after the current time is answered 404
\* future_time, an hour before the operations start is answered 404 no_operation, and
\* a request rejected this way issues no upstream query.
C15_HourValidatedFirst ==
    ep_call.endpoint \in HourlyEndpoints =>
        /\ ~HourOfCall.parses => ep_response.status = 400 /\ ep_queries = <<>>
        /\ (HourOfCall.parses /\ ep_call.endpoint = "get_trips" /\ HourOfCall.at >= ep_call.now)
              => RejectedWith(404, "future_time")
        /\ (HourOfCall.parses /\ HourOfCall.at < operations_start)
              => RejectedWith(404, "no_operation")

\* the code of an answer, under either of the keys the endpoints use
ResponseCode ==
    IF "error" \in DOMAIN ep_response.body THEN ep_response.body.error
    ELSE DictGet(ep_response.body, "error_code", "")
\* a call of an hourly historical endpoint that passed validation and whose
\* availability query returned
ValidHistoricalCall ==
    /\ ep_call.endpoint \in {"get_trips", "get_historical_events"}
    /\ HourOfCall.parses /\ HourOfCall.at >= operations_start
    /\ ep_call.endpoint = "get_trips" => HourOfCall.at < ep_call.now
    /\ ep_call.count_query.exc = ""

\* C16 as stated: on /trips and /events/historical a request for a valid hour that is
\* less than 2 hours old and whose data is not yet available is answered 202 with code
\* data_processing, and a request for an older hour, or for an hour whose data is
\* available, is never answered 202.
C16_ProcessingAnswered202 ==
    ValidHistoricalCall =>
        ((ep_response.status = 202 /\ ResponseCode = "data_processing")
            <=> StillProcessing(HourOfCall, ep_call.now,
                                check_data_availability(ep_call.count_query)))
        /\ (ep_response.status = 202 =>
                StillProcessing(HourOfCall, ep_call.now,
                                check_data_availability(ep_call.count_query)))

\* the id of an active robot, whichever way the list carries it
RobotIdOfActive(active) == IF active.type = "str" THEN active.text ELSE active.robot_id
\* the ids of the active robots whose derived device id is the one asked for
RobotsDerivingTo(device_id) ==
    { RobotIdOfActive(ep_call.fleet.value[i]) : i \in
        { j \in 1..Len(ep_call.fleet.value) :
            robot_id_to_device_id(RobotIdOfActive(ep_call.fleet.value[j])) = device_id } }
DeviceLookup ==
    /\ ep_call.endpoint \in {"get_vehicles", "get_vehicle_status"}
    /\ ep_call.device_id # NoDevice
    /\ ~FailedQuery
    /\ ep_call.fleet.exc = ""

\* C18 as stated: GET /vehicles/{device_id} and GET /vehicles/status/{device_id} select
\* exactly the active robot whose derived device id is the requested one, the vehicle
\* built for it has that device_id and the robot id as vehicle_id, and the answer is
\* 404 when no active robot derives to the requested id.
C18_LookupSelectsRobot ==
    DeviceLookup =>
        /\ RobotsDerivingTo(ep_call.device_id) = {} => ep_response.status = 404
        /\ RobotsDerivingTo(ep_call.device_id) # {} =>
              /\ ep_response.status = 200
              /\ ep_call.endpoint = "get_vehicles" =>
                    /\ Len(ep_response.body.vehicles) = 1
                    /\ ep_response.body.vehicles[1].device_id = ep_call.device_id
                    /\ ep_response.body.vehicles[1].vehicle_id
                            \in RobotsDerivingTo(ep_call.device_id)

\* latitude and longitude of a location, a GPS or a GeoJSONFeature of a Point
LatOf(location) == IF location.type = "GPS" THEN location.lat ELSE location.coordinates[2]
LngOf(location) == IF location.type = "GPS" THEN location.lng ELSE location.coordinates[1]
WellFormedTrip(trip) ==
    /\ trip.end_time >= trip.start_time
    /\ trip.duration >= 0
    /\ trip.distance >= 0
    /\ InRange(LatOf(trip.start_location), LngOf(trip.start_location))
    /\ InRange(LatOf(trip.end_location), LngOf(trip.end_location))
\* a warehouse row of which a trip would break one of the rules
IllFormedTripRow(trip_data) ==
    \/ TripTimeMs(DictGet(trip_data, "trip_end", NoneTime))
            < TripTimeMs(DictGet(trip_data, "trip_start", NoneTime))
    \/ DictGet(trip_data, "trip_duration_seconds", 0) < 0
    \/ DictGet(trip_data, "trip_distance_meters", 0) < 0
    \/ ~InRange(DictGet(trip_data, "start_latitude", 0), DictGet(trip_data, "start_longitude", 0))
    \/ ~InRange(DictGet(trip_data, "end_latitude", 0), DictGet(trip_data, "end_longitude", 0))
EmittedTripOf(trip_data) ==
    \E i \in 1..Len(ep_response.body.trips) :
        ep_response.body.trips[i].trip_id = _generate_trip_id(trip_data)
TripsAnswered == ep_call.endpoint = "get_trips" /\ ep_response.status = 200

\* C19: every trip of a /trips response has end_time >= start_time, duration >= 0,
\* distance >= 0 and start and end coordinates on the globe, and no trip is emitted
\* for a warehouse row that would break one of these.
C19_TripsWellFormed ==
    TripsAnswered =>
        /\ \A i \in 1..Len(ep_response.body.trips) : WellFormedTrip(ep_response.body.trips[i])
        /\ \A k \in 1..Len(ep_call.trip_data.value) :
              IllFormedTripRow(ep_call.trip_data.value[k])
                  => ~EmittedTripOf(ep_call.trip_data.value[k])
\* /trips answered over a row that has a start time and no end time, without a trip
\* for it
C19_Witness ==
    /\ TripsAnswered
    /\ \E k \in 1..Len(ep_call.trip_data.value) :
          /\ "trip_start" \in DOMAIN ep_call.trip_data.value[k]
          /\ "trip_end" \notin DOMAIN ep_call.trip_data.value[k]
          /\ IllFormedTripRow(ep_call.trip_data.value[k])
          /\ ~EmittedTripOf(ep_call.trip_data.value[k])

\* an event that has a location or a non-empty list of geographies
HasPlace(event) == event.location.type # "NoneType" \/ event.event_geographies # <<>>
\* an event row with a robot id and a time that converts, without latitude or longitude
UnplacedEventRow(event_data) ==
    /\ RobotIdOf(event_data) # ""
    /\ EventTimeMs(DictGet(event_data, "event_time", NoneTime)).exc = ""
    /\ {"latitude", "longitude"} \ DOMAIN event_data # {}
EmittedEventOf(event_data) ==
    \E i \in 1..Len(ep_response.body.events) :
        ep_response.body.events[i].event_id = _generate_event_id(event_data)
EventsAnswered ==
    /\ ep_call.endpoint \in {"get_historical_events", "get_recent_events"}
    /\ ep_response.status = 200

\* C20: every event of a response, the events of /events/historical and /events/recent
\* and the last_event of each vehicle status, has a location or a non-empty
\* event_geographies, and an event row with a robot id and a valid time but without
\* latitude or longitude gives no event.
C20_EventsHavePlace ==
    /\ EventsAnswered =>
          /\ \A i \in 1..Len(ep_response.body.events) : HasPlace(ep_response.body.events[i])
          /\ \A k \in 1..Len(ep_call.events_data.value) :
                UnplacedEventRow(ep_call.events_data.value[k])
                    => ~EmittedEventOf(ep_call.events_data.value[k])
    /\ (ep_call.endpoint = "get_vehicle_status" /\ ep_response.status = 200) =>
          \A i \in 1..Len(ep_response.body.vehicles_status) :
              HasPlace(ep_response.body.vehicles_status[i].last_event)
\* an events call answered over a row that has a robot id and a time and no
\* coordinates, without an event for it
C20_Witness ==
    /\ EventsAnswered
    /\ \E k \in 1..Len(ep_call.events_data.value) :
          /\ UnplacedEventRow(ep_call.events_data.value[k])
          /\ ~EmittedEventOf(ep_call.events_data.value[k])

\* the location a claim expects in the last event and the last telemetry of the status
\* of a row: the pair of the row when it has both coordinates, the fallback pair when
\* it lacks one
ExpectedGps(row) ==
    IF "latitude" \in DOMAIN row /\ "longitude" \in DOMAIN row
    THEN [lat |-> row.latitude, lng |-> row.longitude, type |-> "GPS"]
    ELSE [lat |-> default_lat, lng |-> default_lng, type |-> "GPS"]
StatusMade ==
    /\ tr_call.function = "transform_location_to_vehicle_status"
    /\ tr_result.exc = ""

\* C21 as stated: every vehicle status has a location in its last event and its last
\* telemetry, the pair of the row when both coordinates are present and the fallback
\* pair when one is missing, never one component of each; current_location is present
\* exactly when both coordinates of the row are.
C21_StatusLocation ==
    StatusMade =>
        /\ tr_result.value.last_event.location = ExpectedGps(tr_call.location_data)
        /\ tr_result.value.last_telemetry.location = ExpectedGps(tr_call.location_data)
        /\ (tr_result.value.current_location # NoLocation)
              <=> ({"latitude", "longitude"} \subseteq DOMAIN tr_call.location_data)

\* the non-empty values among the claims provider_id, sub, client_id, in that order
NonEmptyClaims(claims) ==
    SelectSeq(<<claims.provider_id, claims.sub, claims.client_id>>,
              LAMBDA v : v \notin {NoneVal, ""})
\* dispatch has just verified the signature of the token in hand and handed its claims
\* to extract_provider_id
ClaimsExtracted ==
    /\ gate.jwt_calls = 1 /\ gate.verified
    /\ (pc = "done" /\ gate.calls = 0) \/ (pc = "downstream" /\ gate.via = "jwt")

\* C22: extract_provider_id takes the first non-empty value among provider_id, sub and
\* client_id: the token is refused with 401 when there is none, with 403 when that
\* value is not the configured provider id, whatever the later claims are, and is
\* admitted as the configured provider otherwise.
C22_FirstClaimDecides ==
    ClaimsExtracted =>
        IF NonEmptyClaims(gate.token.jwt.claims) = <<>>
        THEN gate.kind = "respond" /\ gate.status = 401
        ELSE IF NonEmptyClaims(gate.token.jwt.claims)[1] # PROVIDER_ID
        THEN gate.kind = "respond" /\ gate.status = 403
        ELSE gate.kind = "call_next" /\ gate.auth = AuthState(PROVIDER_ID, "jwt")
\* a token whose provider_id names another provider and whose sub names the configured
\* one has been refused with 403
C22_Witness ==
    /\ ClaimsExtracted
    /\ gate.token.jwt.claims.provider_id = OTHER_ID
    /\ gate.token.jwt.claims.sub = PROVIDER_ID
    /\ gate.status = 403

\* a step in which dispatch handled a protected request without X-API-Key whose
\* Authorization header is 'Bearer <token>'
BearerStep ==
    /\ DispatchStep
    /\ Protected(request')
    /\ ~HeaderTruthy(request'.x_api_key)
    /\ request'.authorization.present /\ request'.authorization.has_space
    /\ Lower(request'.authorization.head.text) = "bearer"
\* the token is shorter than 100 characters and has no '.'
ShortOpaque(token) == token.len < 100 /\ ~token.dot
\* what the claim says of the token of the step
KeyFirst(token) ==
    IF ShortOpaque(token)
    THEN /\ gate'.lookups = <<token.text>>
         /\ IF KeyRefusedBy(api_keys, token)
            THEN gate'.jwt_calls = 1 /\ gate'.token = token
            ELSE /\ gate'.calls = 1 /\ pc' = "downstream"
                 /\ gate'.auth.auth_type = "api_key"
                 /\ gate'.jwt_calls = 0
    ELSE gate'.lookups = <<>>

\* C23: a Bearer token shorter than 100 characters without '.' is looked up in the
\* API-key store first and, when it is an active key, the request is admitted as
\* api_key without signed-token verification; when the lookup fails the same token goes
\* to signed-token verification; a token of 100 or more characters, or with a '.', is
\* never looked up in the store.  (Where the header has nothing but white space after
\* 'Bearer ' there is no token: the lookup of the empty text fails and the request is
\* refused with 401 invalid_authorization_header.)
C23_ShortTokenIsKeyFirst ==
    [][ BearerStep =>
          IF IsBlank(request'.authorization.rest)
          THEN /\ gate'.lookups = <<request'.authorization.rest.text>>
               /\ gate'.jwt_calls = 0
               /\ response' = GateResponse(401, "invalid_authorization_header")
               /\ gate'.calls = 0 /\ pc' = "done"
          ELSE KeyFirst(request'.authorization.rest) ]_vars
\* a short Bearer token that is no key of the store has been looked up and then
\* handed to signed-token verification
C23_Witness ==
    /\ Protected(request)
    /\ request.authorization = Header2(Bearer, KeyUnknown)
    /\ ~HeaderTruthy(request.x_api_key)
    /\ gate.lookups = <<KeyUnknown.text>>
    /\ gate.jwt_calls = 1 /\ gate.token = KeyUnknown
    /\ pc = "done"

\* a step in which dispatch handled a protected request without X-API-Key whose
\* Authorization header has a value that is not of the form 'Bearer <token>'
NotBearerStep ==
    /\ DispatchStep
    /\ Protected(request')
    /\ ~HeaderTruthy(request'.x_api_key)
    /\ HeaderTruthy(request'.authorization)
    /\ ~(request'.authorization.has_space
          /\ Lower(request'.authorization.head.text) = "bearer")

\* C24 as stated: an Authorization header with a scheme other than Bearer, or with a
\* bare token and no scheme, is rejected without a lookup of the value in the API-key
\* store and without its verification as a signed token.
C24_BearerOnly ==
    [][ NotBearerStep =>
          /\ gate'.calls = 0 /\ pc' = "done"
          /\ response'.status = 401
          /\ gate'.lookups = <<>>
          /\ gate'.jwt_calls = 0 ]_vars

\* the event id and the telemetry id the one derivation gives the status of a row:
\* the event id over the robot id, the time of the row and one of the event types of
\* the status, the telemetry id over the device id and the timestamp
DerivedEventIds(row, status) ==
    { _generate_event_id([event_time |-> GetTimestamp(row),
                          event_type |-> status.last_event.event_types[i],
                          robot_id |-> row.robot_id]) :
        i \in 1..Len(status.last_event.event_types) }
OneDerivation(row, status) ==
    /\ status.last_event.event_id \in DerivedEventIds(row, status)
    /\ status.last_telemetry.telemetry_id
            = telemetry_id_of(status.device_id, status.last_telemetry.timestamp)
StatusAnswered == ep_call.endpoint = "get_vehicle_status" /\ ep_response.status = 200

\* C25 as stated: the event_id of the last_event and the telemetry_id of the
\* last_telemetry of a vehicle status are produced by the derivations the events and
\* telemetry endpoints use, over (vehicle id, event time, event type) and over
\* (device id, timestamp).
C25_OneDerivation ==
    StatusAnswered =>
        \A i \in 1..Len(ep_response.body.vehicles_status) :
            \E k \in 1..Len(ep_call.location_data.value) :
                /\ RobotIdOf(ep_call.location_data.value[k]) # ""
                /\ robot_id_to_device_id(ep_call.location_data.value[k].robot_id)
                       = ep_response.body.vehicles_status[i].device_id
                /\ OneDerivation(ep_call.location_data.value[k],
                                 ep_response.body.vehicles_status[i])

\* f"{event_time}" and f"{time_ms}": the text of a time inside a name
TimeText(t) == IF t = NoneTime THEN "" ELSE "datetime(" \o ToString(t.wall) \o ")"
\* the hash-input keys of the four identifier classes, as texts
DeviceKey(robot_id) == JoinDots(robot_id_to_device_id(robot_id).name)
TripKey(trip_data) == JoinDots(_generate_trip_id(trip_data).name)
EventKey(event_data) ==
    JoinDots([_generate_event_id(event_data).name EXCEPT ![4] = TimeText(@)])
TelemetryKey(device_id, time_ms) ==
    JoinDots([telemetry_id_of(device_id, time_ms).name EXCEPT ![4] = ToString(@)])
TelemetryKeys ==
    { TelemetryKey(robot_id_to_device_id(r), 1000 * (NowBase + s)) :
        r \in TrRawIds, s \in 0..1 }
DeviceKeys == { DeviceKey(r) : r \in TrRawIds }
TripKeys == { TripKey(row) : row \in TrKeyRows }
EventKeys == { EventKey(row) : row \in TrKeyRows }

\* C26 as stated: the hash-input key of a device id differs from the key of every
\* trip, event and telemetry id, the key of a trip id from that of every event and
\* telemetry id, and the key of an event id from that of every telemetry id, also for
\* a raw robot id that contains a class tag such as "trip.".
C26_ClassesDisjoint ==
    /\ tr_call.function = "robot_id_to_device_id" =>
           DeviceKey(tr_call.robot_id) \notin TripKeys \cup EventKeys \cup TelemetryKeys
    /\ tr_call.function = "_generate_trip_id" =>
           TripKey(tr_call.trip_data) \notin DeviceKeys \cup EventKeys \cup TelemetryKeys
    /\ tr_call.function = "_generate_event_id" =>
           EventKey(tr_call.event_data) \notin DeviceKeys \cup TripKeys \cup TelemetryKeys

\* a trip row that has both coordinate pairs
BothPairs(trip_data) ==
    {"start_latitude", "start_longitude", "end_latitude", "end_longitude"}
        \subseteq DOMAIN trip_data
GreatCircleOf(trip_data) ==
    haversine_distance(trip_data.start_latitude, trip_data.start_longitude,
                       trip_data.end_latitude, trip_data.end_longitude)
TripRowsTransformed ==
    IF TripsAnswered THEN { ep_call.trip_data.value[i] : i \in 1..Len(ep_call.trip_data.value) }
    ELSE {}

\* C27 as stated: for every trip row get_trips transforms that has both coordinate
\* pairs, the distance handed to the trip is the truncated great-circle distance
\* between start and end when the supplied distance is zero or absent, also when a
\* coordinate component is 0, and the supplied distance when that is not zero.
C27_DistanceIsGreatCircle ==
    \A trip_data \in TripRowsTransformed :
        (RobotIdOf(trip_data) # "" /\ BothPairs(trip_data)) =>
            TripDistance(trip_data) =
                IF DictGet(trip_data, "trip_distance_meters", 0) = 0
                THEN GreatCircleOf(trip_data)
                ELSE trip_data.trip_distance_meters

\* the event types and the vehicle state the endpoints give the event of a row, and
\* the pair a row's event_type string stands for
ClassOfRow(event_data) ==
    <<EventTypesOfRow(DictGet(event_data, "event_type", "other")),
      VehicleStateOfRow(DictGet(event_data, "event_type", "other"))>>
ClassOfString(event_data) ==
    IF "event_type" \notin DOMAIN event_data THEN <<<<"located">>, "available">>
    ELSE IF event_data.event_type = "trip_start" THEN <<<<"trip_start">>, "on_trip">>
    ELSE IF event_data.event_type = "trip_end" THEN <<<<"trip_end">>, "available">>
    ELSE <<<<"located">>, "available">>
\* the rows an events call has gone through
EventRowsTransformed ==
    IF EventsAnswered
    THEN { ep_call.events_data.value[k] : k \in 1..Len(ep_call.events_data.value) }
    ELSE {}
EventStrings ==
    { DictGet(event_data, "event_type", "<absent>") : event_data \in EventRowsTransformed }

\* C28: in /events/historical and /events/recent alike, the event types and the
\* vehicle state built for a row depend on its event_type string alone: trip_start
\* gives ([trip_start], on_trip), trip_end gives ([trip_end], available), any other
\* or absent value gives ([located], available); and an event of the response
\* carries the pair of its row.
C28_ClassByEventType ==
    \A event_data \in EventRowsTransformed :
        /\ ClassOfRow(event_data) = ClassOfString(event_data)
        /\ \A i \in 1..Len(ep_response.body.events) :
              ep_response.body.events[i].event_id = _generate_event_id(event_data) =>
                  <<ep_response.body.events[i].event_types,
                    ep_response.body.events[i].vehicle_state>> = ClassOfString(event_data)
\* a recent-events call answered over rows of type trip_end, of another type and of
\* no type
C28_Witness ==
    /\ ep_call.endpoint = "get_recent_events"
    /\ {"trip_end", "battery_low", "<absent>"} \subseteq EventStrings

\* calls of the store and their results
KeyCalled(method, keytext) == key_call.method = method /\ key_call.key = keytext
RevokedTrue(keytext) == KeyCalled("revoke_api_key", keytext) /\ key_result.value = TRUE
ValidateFails(keytext) ==
    KeyCalled("validate_api_key", keytext) =>
        key_result.exc = "HTTPException" /\ key_result.status = 401
GeneratedFor(keytext, provider_id) ==
    KeyCalled("generate_api_key", keytext) /\ key_call.provider_id = provider_id
\* a validation of an active key returns the provider the key was generated for
ValidatesTo(keytext, provider_id) ==
    (/\ KeyCalled("validate_api_key", keytext)
     /\ keytext \in DOMAIN api_keys
     /\ api_keys[keytext].active) =>
        key_result.exc = "" /\ key_result.value.provider_id = provider_id
\* what a step of each method does to the store
StoreStep ==
    /\ key_call'.method = "generate_api_key" =>
          /\ api_keys'[key_call'.key] = KeyInfo(key_call'.provider_id, TRUE)
          /\ \A k \in DOMAIN api_keys : api_keys'[k] = api_keys[k]
    /\ (key_call'.method = "revoke_api_key" /\ key_call'.key \notin DOMAIN api_keys) =>
          key_result'.value = FALSE /\ api_keys' = api_keys
    /\ (key_call'.method = "revoke_api_key" /\ key_call'.key \in DOMAIN api_keys) =>
          key_result'.value = TRUE
    /\ key_call'.method = "validate_api_key" => api_keys' = api_keys
    /\ \A k \in DOMAIN api_keys :
          /\ k \in DOMAIN api_keys'
          /\ api_keys'[k].provider_id = api_keys[k].provider_id
          /\ ~api_keys[k].active => ~api_keys'[k].active

\* C29: under any sequence of generate_api_key, revoke_api_key and validate_api_key
\* calls, a key generated and still active validates to the provider it was generated
\* for; once revoke_api_key(k) has returned True, every later validate_api_key(k)
\* fails with 401; generating a key leaves every existing key as it was, no step
\* reactivates or re-assigns a key, revoking an unknown key returns False and changes
\* nothing, and validate_api_key never changes the store.
C29_KeyLifecycle ==
    /\ \A k \in KeyArguments : [](RevokedTrue(k) => [](ValidateFails(k)))
    /\ \A k \in GeneratedKeys : \A p \in KeyProviders :
          [](GeneratedFor(k, p) => [](ValidatesTo(k, p)))
    /\ [][StoreStep]_vars
\* a generated key, revoked, is validated and refused as inactive while another key
\* generated after the revocation is active
C29_Witness ==
    /\ key_call.method = "validate_api_key"
    /\ key_call.key \in GeneratedKeys
    /\ key_result.exc = "HTTPException" /\ key_result.detail = "API key is inactive"
    /\ \E k \in GeneratedKeys \cap DOMAIN api_keys : api_keys[k].active

\* the paths on which a credential validated before the request went downstream
AdmissionPaths == {"x_api_key", "bearer_api_key", "bare_api_key", "jwt"}
\* a step in which the call_next awaited on an admission path ends
CallNextStep == pc = "downstream" /\ gate.via \in AdmissionPaths /\ api_keys' = api_keys
\* the responses that carry a downstream outcome unchanged: the outcome itself or,
\* for an HTTPException, the response of its status and error code
Rendered(down) ==
    IF down.exc = "HTTPException"
    THEN {FromDownstream(down), GateResponse(down.status, down.error)}
    ELSE {FromDownstream(down)}
Unchanged(r) == \E down \in DownOutcomes : r \in Rendered(down)

\* C30 as stated: on each admission path (X-API-Key, API key in the Authorization
\* header, signed token), when the downstream call ends the gate is done with the
\* request: it has invoked downstream once, it evaluates no further credential
\* scheme, and its response is the downstream outcome unchanged, never an
\* authentication failure of its own.
C30_DownstreamOutcomeKept ==
    [][CallNextStep =>
          /\ pc' = "done"
          /\ gate'.calls = 1
          /\ gate'.jwt_calls = gate.jwt_calls
          /\ Unchanged(response')]_vars

====
